---- MODULE Spec2Model ----
(***************************************************************************)
(* A model of the video-translator core: the interval merger and segment   *)
(* consolidator (core/merger.py), the translation batcher                  *)
(* (core/translator.py), the time conversions (utils/time_utils.py) and    *)
(* the subtitle generator (utils/ass_generator.py), and the pipeline that   *)
(* runs them with its collaborators (core/pipeline.py).                    *)
(*                                                                         *)
(* Times are integers on a grid (the source's floats are only compared,    *)
(* added and subtracted).  A text is a sequence of one-character strings   *)
(* or word tokens.  A Python dict that the code copies or writes in place  *)
(* is an object of `heap`, named by its index, so that aliasing shows.     *)
(***************************************************************************)
EXTENDS Integers, Sequences, FiniteSets, TLC

VARIABLES
    pc,                     \* which call is running / has returned
    trans_start,            \* find_best_speaker: argument
    trans_end,              \* find_best_speaker: argument
    best_speaker,           \* find_best_speaker: returned label
    runs,                   \* find_best_speaker: number of calls made so far
    transcription_segments, \* merge_segments: argument (list of dict values)
    diarization_given,      \* FALSE models diarization_segments is None
    diarization_segments,   \* find_best_speaker / merge_segments: argument
    merged,                 \* merge_segments: returned list
    overlap_ops,            \* merge_segments: overlap computations performed
    heap,                   \* consolidate_segments: the dict objects, by identity
    segments,               \* consolidate_segments: argument (list of object ids)
    input_cues,             \* the values of the input dicts when the call began
    max_gap,                \* consolidate_segments: argument
    max_duration,           \* consolidate_segments: argument
    consolidated,           \* consolidate_segments: returned list (object ids)
    response,               \* parse_numbered_response: argument (characters)
    expected_count,         \* parse_numbered_response: argument
    parsed,                 \* parse_numbered_response: returned list
    api_key_set,            \* translate_segments: api_key is a non-empty string
    anthropic_installed,    \* `import anthropic` succeeds
    batch_size,             \* translate_segments: argument
    max_retries,            \* translate_segments: argument
    progress_given,         \* translate_segments: progress_callback is not None
    batch_index,            \* translate_segments: the loop variable i
    result,                 \* translate_segments: result list (object ids)
    attempt,                \* translate_batch: the loop variable attempt
    last_error,             \* translate_batch: last_error
    calls,                  \* collaborator calls made for the current batch
    outcomes,               \* what each of those calls returned or raised
    waits,                  \* time.sleep calls made for the current batch
    sent,                   \* the texts argument of each translate_batch call
    responses,              \* the response text parsed for each finished batch
    progress,               \* the progress_callback calls, as <<current, total>>
    error,                  \* the exception that left translate_segments
    seconds,                \* seconds_to_ass_time: argument, in ticks
    time_str,               \* seconds_to_ass_time: result; ass_time_to_seconds: argument
    time_result,            \* ass_time_to_seconds: the value returned or the error raised
    ass_text,               \* escape_ass_text: argument (characters)
    escaped,                \* escape_ass_text: result
    ass_segments,           \* generate_ass: argument (list of dict values)
    include_translation,    \* generate_ass: argument
    dir_exists,             \* the parent directory of output_path exists
    out_file,               \* the file at output_path: whether it exists, its content
    fs_ops,                 \* the file system operations generate_ass has made
    ass_error,              \* the exception that left generate_ass
    video_exists,           \* process_video: the file at video_path exists
    enable_diarization,     \* process_video: config.enable_diarization
    callback_given,         \* process_video: progress_callback is not None
    rec_task,               \* the executor's transcribe task
    diar_task,              \* the executor's diarize task
    pending,                \* the exception leaving the `with` block, if any
    steps,                  \* the calls process_video and its tasks have made
    reports,                \* the ratios given to progress_callback
    audio_file              \* the temporary audio file exists

vars == <<pc, trans_start, trans_end, best_speaker, runs,
          transcription_segments, diarization_given, diarization_segments,
          merged, overlap_ops, heap, segments, input_cues, max_gap,
          max_duration, consolidated, response, expected_count, parsed,
          api_key_set, anthropic_installed, batch_size, max_retries,
          progress_given, batch_index, result, attempt, last_error, calls,
          outcomes, waits, sent, responses, progress, error, seconds,
          time_str, time_result, ass_text, escaped, ass_segments,
          include_translation, dir_exists, out_file, fs_ops, ass_error,
          video_exists, enable_diarization, callback_given, rec_task,
          diar_task, pending, steps, reports, audio_file>>

findVars == <<trans_start, trans_end, best_speaker, runs>>
mergeVars == <<transcription_segments, merged, overlap_ops>>
diarVars == <<diarization_given, diarization_segments>>
heapVars == <<heap, segments, input_cues>>
consVars == <<heapVars, max_gap, max_duration, consolidated>>
parseVars == <<response, expected_count, parsed>>
translateArgs == <<api_key_set, anthropic_installed, batch_size, max_retries,
                   progress_given>>
translateVars == <<translateArgs, batch_index, result, attempt, last_error,
                   calls, outcomes, waits, sent, responses, progress, error>>

timeVars == <<seconds, time_str, time_result>>
escapeVars == <<ass_text, escaped>>
fsVars == <<dir_exists, out_file, fs_ops>>
assVars == <<escapeVars, ass_segments, include_translation, fsVars, ass_error>>
pipeArgs == <<video_exists, enable_diarization, callback_given>>
taskVars == <<rec_task, diar_task>>
pipeVars == <<pipeArgs, taskVars, pending, steps, reports, audio_file>>

\* what the merger's calls leave alone, and what the translator's calls do
outsideMerger == <<parseVars, translateVars, timeVars, assVars, pipeVars>>
outsideTranslator == <<findVars, mergeVars, diarVars, max_gap, max_duration,
                       consolidated, timeVars, assVars, pipeVars>>

\* the values of the variables of calls that are not running
FindIdle == trans_start = 0 /\ trans_end = 0 /\ best_speaker = "" /\ runs = 0
MergeIdle == transcription_segments = <<>> /\ merged = <<>> /\ overlap_ops = 0
DiarIdle == diarization_given = FALSE /\ diarization_segments = <<>>
HeapIdle == heap = <<>> /\ segments = <<>> /\ input_cues = <<>>
ConsIdle == HeapIdle /\ max_gap = 0 /\ max_duration = 0 /\ consolidated = <<>>
ParseIdle == response = <<>> /\ expected_count = 0 /\ parsed = <<>>
NoError == [type |-> "", cause |-> "", detail |-> ""]
TranslateIdle ==
    /\ api_key_set = FALSE /\ anthropic_installed = FALSE
    /\ batch_size = 0 /\ max_retries = 0 /\ progress_given = FALSE
    /\ batch_index = 0 /\ result = <<>> /\ attempt = 0 /\ last_error = ""
    /\ calls = 0 /\ outcomes = <<>> /\ waits = <<>> /\ sent = <<>>
    /\ responses = <<>> /\ progress = <<>> /\ error = NoError
NoTime == [error |-> "", value |-> 0]
TimeIdle == seconds = 0 /\ time_str = <<>> /\ time_result = NoTime
NoFile == [exists |-> FALSE, content |-> <<>>]
EscapeIdle == ass_text = <<>> /\ escaped = <<>>
FsIdle == dir_exists = FALSE /\ out_file = NoFile /\ fs_ops = <<>>
AssIdle ==
    /\ EscapeIdle /\ FsIdle
    /\ ass_segments = <<>> /\ include_translation = FALSE /\ ass_error = ""
PipeIdle ==
    /\ video_exists = FALSE /\ enable_diarization = FALSE
    /\ callback_given = FALSE
    /\ rec_task = [state |-> "none", result |-> <<>>, exception |-> ""]
    /\ diar_task = [state |-> "none", result |-> <<>>, exception |-> ""]
    /\ pending = "" /\ steps = <<>> /\ reports = <<>> /\ audio_file = FALSE
OutsideMergerIdle == ParseIdle /\ TranslateIdle /\ TimeIdle /\ AssIdle /\ PipeIdle
OutsideTranslatorIdle ==
    /\ FindIdle /\ MergeIdle /\ DiarIdle
    /\ max_gap = 0 /\ max_duration = 0 /\ consolidated = <<>>
    /\ TimeIdle /\ AssIdle /\ PipeIdle

----------------------------------------------------------------------------
(* Bounds of the model *)

MaxTime == 2        \* times range over 0..MaxTime
MaxTurns == 2       \* diarization turns given to find_best_speaker
MaxRuns == 2        \* repeated calls of find_best_speaker on the same input
MaxTrans == 2       \* transcription segments given to merge_segments
MaxMergeTurns == 1  \* diarization turns given to merge_segments
MaxCues == 3        \* cues given to consolidate_segments

Times == 0..MaxTime
Intervals == {iv \in Times \X Times : iv[1] <= iv[2]}

\* Speaker labels produced by the diarization collaborator.
Speakers == {"SPEAKER_00", "SPEAKER_01"}

\* The text of the i-th input segment (the code never looks inside a text).
Words == <<"a", "b", "c", "d", "e", "f">>
SegText(i) == <<Words[i]>>

SeqsUpTo(S, n) == UNION {[1..k -> S] : k \in 0..n}

Turns == {[start |-> iv[1], end |-> iv[2], speaker |-> sp] :
            iv \in Intervals, sp \in Speakers}

----------------------------------------------------------------------------
(* core/merger.py: find_best_speaker *)

Max(a, b) == IF a >= b THEN a ELSE b
Min(a, b) == IF a <= b THEN a ELSE b

\* lines 25-27: the overlap of [ts, te] with turn d
Overlap(ts, te, d) == Max(0, Min(te, d.end) - Max(ts, d.start))

\* lines 23-31, the loop from turn k on, with the best so far
RECURSIVE FindLoop(_, _, _, _, _, _)
FindLoop(ts, te, ds, k, speaker, overlap) ==
    IF k > Len(ds) THEN speaker
    ELSE IF Overlap(ts, te, ds[k]) > overlap
         THEN FindLoop(ts, te, ds, k + 1, ds[k].speaker, Overlap(ts, te, ds[k]))
         ELSE FindLoop(ts, te, ds, k + 1, speaker, overlap)

\* faulty variant: the last turn with any positive overlap wins
RECURSIVE FindLoopAny(_, _, _, _, _)
FindLoopAny(ts, te, ds, k, speaker) ==
    IF k > Len(ds) THEN speaker
    ELSE IF Overlap(ts, te, ds[k]) > 0
         THEN FindLoopAny(ts, te, ds, k + 1, ds[k].speaker)
         ELSE FindLoopAny(ts, te, ds, k + 1, speaker)

find_best_speaker_any(ts, te, ds) == FindLoopAny(ts, te, ds, 1, "UNKNOWN")

\* faulty variant: `>=` for `>`, so a later turn of equal overlap replaces the best
RECURSIVE FindLoopGe(_, _, _, _, _, _)
FindLoopGe(ts, te, ds, k, speaker, overlap) ==
    IF k > Len(ds) THEN speaker
    ELSE IF Overlap(ts, te, ds[k]) >= overlap /\ Overlap(ts, te, ds[k]) > 0
         THEN FindLoopGe(ts, te, ds, k + 1, ds[k].speaker, Overlap(ts, te, ds[k]))
         ELSE FindLoopGe(ts, te, ds, k + 1, speaker, overlap)

find_best_speaker_ge(ts, te, ds) == FindLoopGe(ts, te, ds, 1, "UNKNOWN", 0)

find_best_speaker(ts, te, ds) == FindLoop(ts, te, ds, 1, "UNKNOWN", 0)

----------------------------------------------------------------------------
(* core/merger.py: merge_segments *)

\* faulty variant: only None counts as "no diarization"
no_diarization_none_only(given, ds) == ~given

\* line 61: `not diarization_segments` (None or an empty list)
no_diarization(given, ds) == ~given \/ Len(ds) = 0

\* faulty variant: segments nobody speaks in are dropped
merge_segments_drop(ts, given, ds) ==
    IF Len(ts) = 0 THEN <<>>
    ELSE IF no_diarization(given, ds)
    THEN [i \in 1..Len(ts) |->
            [start |-> ts[i].start, end |-> ts[i].end, text |-> ts[i].text,
             speaker |-> "SPEAKER_00"]]
    ELSE SelectSeq(
           [i \in 1..Len(ts) |->
              [start |-> ts[i].start, end |-> ts[i].end, text |-> ts[i].text,
               speaker |-> find_best_speaker(ts[i].start, ts[i].end, ds)]],
           LAMBDA c : c.speaker # "UNKNOWN")

\* lines 57-90
merge_segments(ts, given, ds) ==
    IF Len(ts) = 0 THEN <<>>
    ELSE IF no_diarization(given, ds)
    THEN [i \in 1..Len(ts) |->
            [start |-> ts[i].start, end |-> ts[i].end, text |-> ts[i].text,
             speaker |-> "SPEAKER_00"]]
    ELSE [i \in 1..Len(ts) |->
            [start |-> ts[i].start, end |-> ts[i].end, text |-> ts[i].text,
             speaker |-> find_best_speaker(ts[i].start, ts[i].end, ds)]]

\* the overlap computations merge_segments performs: one per (segment, turn)
\* pair of the loop of lines 74-79, none on the early returns
merge_overlap_ops(ts, given, ds) ==
    IF Len(ts) = 0 \/ no_diarization(given, ds) THEN 0 ELSE Len(ts) * Len(ds)

----------------------------------------------------------------------------
(* core/merger.py: consolidate_segments *)

None == 0   \* `current is None`; object ids start at 1

\* the (max_gap, max_duration) arguments tried
ConsolidateArgs == {<<0, 2>>, <<1, 1>>}

\* faulty variant: `current = seg`, the accumulator aliases the input dict
dict_alias(h, id) == [heap |-> h, id |-> id]

\* lines 120, 135: seg.copy() allocates a new dict with the same items
dict_copy(h, id) == [heap |-> Append(h, h[id]), id |-> Len(h) + 1]

\* faulty variant: the gap bound is exclusive
can_merge_strict_gap(cur, seg, g, d) ==
    /\ seg.speaker = cur.speaker
    /\ seg.start - cur.end < g
    /\ seg.end - cur.start <= d

\* faulty variant: the duration bound is put on the accumulator as it is, not
\* on the cue the merge would give
can_merge_current_duration(cur, seg, g, d) ==
    /\ seg.speaker = cur.speaker
    /\ seg.start - cur.end <= g
    /\ cur.end - cur.start <= d

\* lines 124-128: same_speaker and small_gap and within_duration
can_merge(cur, seg, g, d) ==
    /\ seg.speaker = cur.speaker
    /\ seg.start - cur.end <= g
    /\ seg.end - cur.start <= d

\* faulty variant: the merged cue ends at the later of the two ends
merge_into_max_end(cur, seg) ==
    [cur EXCEPT !.end = Max(cur.end, seg.end),
                !.text = cur.text \o <<" ">> \o seg.text]

\* lines 130-131: the writes to the accumulator
merge_into(cur, seg) ==
    [cur EXCEPT !.end = seg.end, !.text = cur.text \o <<" ">> \o seg.text]

\* faulty variant: the emitted accumulator goes to the front of the result
ConsolidateStepPrepend(st, seg, g, d) ==
    IF st.current = None
    THEN LET c == dict_copy(st.heap, seg)
         IN  [heap |-> c.heap, consolidated |-> st.consolidated, current |-> c.id]
    ELSE IF can_merge(st.heap[st.current], st.heap[seg], g, d)
    THEN [st EXCEPT !.heap = [st.heap EXCEPT ![st.current] =
                                 merge_into(st.heap[st.current], st.heap[seg])]]
    ELSE LET c == dict_copy(st.heap, seg)
         IN  [heap |-> c.heap,
              consolidated |-> <<st.current>> \o st.consolidated,
              current |-> c.id]

\* lines 118-135: one iteration of the loop, on the dict `seg`
\* st = [heap, consolidated, current]
ConsolidateStep(st, seg, g, d) ==
    IF st.current = None
    THEN LET c == dict_copy(st.heap, seg)
         IN  [heap |-> c.heap, consolidated |-> st.consolidated, current |-> c.id]
    ELSE IF can_merge(st.heap[st.current], st.heap[seg], g, d)
    THEN [st EXCEPT !.heap = [st.heap EXCEPT ![st.current] =
                                 merge_into(st.heap[st.current], st.heap[seg])]]
    ELSE LET c == dict_copy(st.heap, seg)
         IN  [heap |-> c.heap,
              consolidated |-> Append(st.consolidated, st.current),
              current |-> c.id]

\* lines 115-135: the loop state after the first k iterations
RECURSIVE ConsolidateScan(_, _, _, _, _)
ConsolidateScan(h, segs, k, g, d) ==
    IF k = 0 THEN [heap |-> h, consolidated |-> <<>>, current |-> None]
    ELSE ConsolidateStep(ConsolidateScan(h, segs, k - 1, g, d), segs[k], g, d)

\* faulty variant: the last accumulator is not appended after the loop
consolidate_segments_no_flush(h, segs, g, d) ==
    IF Len(segs) = 0 THEN [heap |-> h, result |-> <<>>]
    ELSE LET st == ConsolidateScan(h, segs, Len(segs), g, d)
         IN  [heap |-> st.heap, result |-> st.consolidated]

\* lines 112-141; returns the heap after the call and the returned list
consolidate_segments(h, segs, g, d) ==
    IF Len(segs) = 0 THEN [heap |-> h, result |-> <<>>]
    ELSE LET st == ConsolidateScan(h, segs, Len(segs), g, d)
         IN  [heap |-> st.heap,
              result |-> IF st.current # None
                         THEN Append(st.consolidated, st.current)
                         ELSE st.consolidated]

----------------------------------------------------------------------------
(* core/translator.py: parse_numbered_response *)

\* characters are one-character strings
NL == "\n"
Whitespace == {" ", NL}
Digits == {"0", "1", "2", "3", "4", "5", "6", "7", "8", "9"}
Separators == {".", ":"} \cup Whitespace
DigitValue(c) ==
    CASE c = "0" -> 0 [] c = "1" -> 1 [] c = "2" -> 2 [] c = "3" -> 3
      [] c = "4" -> 4 [] c = "5" -> 5 [] c = "6" -> 6 [] c = "7" -> 7
      [] c = "8" -> 8 [] c = "9" -> 9

\* int(): the value of a run of decimal digits
RECURSIVE IntOf(_)
IntOf(ds) ==
    IF ds = <<>> THEN 0
    ELSE 10 * IntOf(SubSeq(ds, 1, Len(ds) - 1)) + DigitValue(ds[Len(ds)])

\* str.strip()
RECURSIVE LStrip(_)
LStrip(str) ==
    IF str # <<>> /\ Head(str) \in Whitespace THEN LStrip(Tail(str)) ELSE str

RECURSIVE RStrip(_)
RStrip(str) ==
    IF str # <<>> /\ str[Len(str)] \in Whitespace
    THEN RStrip(SubSeq(str, 1, Len(str) - 1)) ELSE str

Strip(str) == RStrip(LStrip(str))

\* str.split("\n"): always at least one (possibly empty) line
RECURSIVE SplitLines(_)
SplitLines(str) ==
    IF \E k \in 1..Len(str) : str[k] = NL
    THEN LET k == CHOOSE j \in 1..Len(str) :
                    str[j] = NL /\ \A h \in 1..(j - 1) : str[h] # NL
         IN  <<SubSeq(str, 1, k - 1)>> \o SplitLines(SubSeq(str, k + 1, Len(str)))
    ELSE <<str>>

\* the ways ^\s*(\d+)[.:\s]+(.+)$ matches line: <<a, b, c>> where \s* takes the
\* first a characters, \d+ the characters a+1..b, [.:\s]+ the characters
\* b+1..c and .+ the rest
Matches(line) ==
    {m \in (0..Len(line)) \X (0..Len(line)) \X (0..Len(line)) :
        /\ m[1] < m[2] /\ m[2] < m[3] /\ m[3] < Len(line)
        /\ \A k \in 1..m[1] : line[k] \in Whitespace
        /\ \A k \in (m[1] + 1)..m[2] : line[k] \in Digits
        /\ \A k \in (m[2] + 1)..m[3] : line[k] \in Separators
        /\ \A k \in (m[3] + 1)..Len(line) : line[k] # NL}

\* the match re.match returns: every quantifier is greedy, so the first match
\* found takes the longest \s*, then the longest \d+, then the longest [.:\s]+
FirstMatch(line) ==
    CHOOSE m \in Matches(line) :
        \A o \in Matches(line) :
            \/ m[1] > o[1]
            \/ m[1] = o[1] /\ m[2] > o[2]
            \/ m[1] = o[1] /\ m[2] = o[2] /\ m[3] >= o[3]

\* lines 126-131: the dict after the lines k.. of `lines`, from dict `translations`
RECURSIVE ParseLines(_, _, _)
ParseLines(lines, k, translations) ==
    IF k > Len(lines) THEN translations
    ELSE LET line == Strip(lines[k])
         IN  IF Matches(line) = {} THEN ParseLines(lines, k + 1, translations)
             ELSE LET m == FirstMatch(line)
                      num == IntOf(SubSeq(line, m[1] + 1, m[2]))
                      text == Strip(SubSeq(line, m[3] + 1, Len(line)))
                  IN  ParseLines(lines, k + 1,
                        [n \in DOMAIN translations \cup {num} |->
                            IF n = num THEN text ELSE translations[n]])

\* faulty variant: positions counted from 0
parse_numbered_response_from0(resp, count) ==
    LET translations == ParseLines(SplitLines(Strip(resp)), 1, [n \in {} |-> <<>>])
    IN  [i \in 1..count |->
            IF (i - 1) \in DOMAIN translations THEN translations[i - 1] ELSE <<>>]

\* lines 111-142
parse_numbered_response(resp, count) ==
    LET translations == ParseLines(SplitLines(Strip(resp)), 1, [n \in {} |-> <<>>])
    IN  [i \in 1..count |->
            IF i \in DOMAIN translations THEN translations[i] ELSE <<>>]

----------------------------------------------------------------------------
(* core/translator.py: translate_batch and translate_segments *)

RetryDelayBase == 1     \* retry_delay_base, in seconds

DigitChar(d) ==
    CASE d = 0 -> "0" [] d = 1 -> "1" [] d = 2 -> "2" [] d = 3 -> "3"
      [] d = 4 -> "4" [] d = 5 -> "5" [] d = 6 -> "6" [] d = 7 -> "7"
      [] d = 8 -> "8" [] d = 9 -> "9"

\* str() of a natural number
RECURSIVE IntToChars(_)
IntToChars(n) ==
    IF n < 10 THEN <<DigitChar(n)>>
    ELSE IntToChars(n \div 10) \o <<DigitChar(n % 10)>>

\* "\n".join(lines)
RECURSIVE JoinLines(_)
JoinLines(lines) ==
    IF lines = <<>> THEN <<>>
    ELSE IF Len(lines) = 1 THEN lines[1]
    ELSE lines[1] \o <<NL>> \o JoinLines(Tail(lines))

\* line 70: the numbered prompt block
input_text(texts) ==
    JoinLines([j \in 1..Len(texts) |-> IntToChars(j) \o <<".", " ">> \o texts[j]])

\* the collaborator's translation of one text
Translated(text) == <<"T">> \o text

Reverse(seq) == [j \in 1..Len(seq) |-> seq[Len(seq) + 1 - j]]

\* response texts the collaborator may give for a batch: every line numbered
\* as in the prompt; the same lines in reverse order; the first line missing
Responses(texts) ==
    LET good == [j \in 1..Len(texts) |->
                    IntToChars(j) \o <<".", " ">> \o Translated(texts[j])]
    IN  {JoinLines(good), JoinLines(Reverse(good)), JoinLines(Tail(good))}

\* the exceptions client.messages.create and the reading of its result raise:
\* anthropic.RateLimitError; other subclasses of anthropic.APIError, transient
\* (connection) or not (authentication); and an exception that is no APIError
ApiErrors == {"APIConnectionError", "AuthenticationError"}
OtherErrors == {"IndexError"}

\* faulty variant: the slice runs one cue into the next batch
batch_slice_long(segs, i, size) == SubSeq(segs, i + 1, Min(i + size + 1, Len(segs)))

\* line 177: segments[i : i + batch_size]
batch_slice(segs, i, size) == SubSeq(segs, i + 1, Min(i + size, Len(segs)))

\* line 178: the texts of a batch
batch_texts(h, batch) == [j \in 1..Len(batch) |-> h[batch[j]].text]

\* line 189: the copy with the key "translation" set
with_translation(cue, t) ==
    [start |-> cue.start, end |-> cue.end, text |-> cue.text,
     speaker |-> cue.speaker, translation |-> t]

\* lines 187-190: zip(batch, translations) from pair k on
RECURSIVE AttachTranslations(_, _, _, _, _)
AttachTranslations(h, res, batch, translations, k) ==
    IF k > Min(Len(batch), Len(translations)) THEN [heap |-> h, result |-> res]
    ELSE LET c == dict_copy(h, batch[k])
         IN  AttachTranslations(
               [c.heap EXCEPT ![c.id] = with_translation(@, translations[k])],
               Append(res, c.id), batch, translations, k + 1)

----------------------------------------------------------------------------
(* The translator as a state machine *)

MaxRespLen == 4     \* characters of a response given to parse_numbered_response
MaxLines == 2       \* lines of a response built from LineChoices
MaxCount == 2       \* expected_count
MaxSegs == 3        \* cues given to translate_segments
MaxBatch == 2       \* batch_size
MaxRetries == 2     \* max_retries

ParseAlphabet == {"1", "2", ".", ":", " ", NL, "a"}

\* response lines of every shape the grammar distinguishes
LineChoices ==
    {<<"1", ".", " ", "a">>,
     <<"2", ":", " ", "b">>,
     <<" ", "1", ".", " ", " ", "a", " ">>,
     <<"3", ".", " ", "c">>,
     <<"1", "2", ".", " ", "a">>,
     <<"0", "1", " ", "a">>,
     <<"a">>,
     <<"1", ".">>,
     <<"1", ".", ".">>,
     <<"1", " ", "2", ".", " ", "a">>,
     <<>>}

\* a call parse_numbered_response(response, expected_count)
InitParse ==
    /\ pc = "parse"
    /\ \/ response \in SeqsUpTo(ParseAlphabet, MaxRespLen)
       \/ \E lines \in SeqsUpTo(LineChoices, MaxLines) : response = JoinLines(lines)
    /\ expected_count \in 0..MaxCount
    /\ parsed = <<>>
    /\ TranslateIdle /\ HeapIdle /\ OutsideTranslatorIdle

\* a call translate_segments(segments, api_key, batch_size, max_retries=...,
\* progress_callback=...)
InitTranslate ==
    /\ pc = "translate"
    /\ \E n \in 0..MaxSegs :
         /\ heap = [j \in 1..n |->
                      [start |-> j - 1, end |-> j, text |-> SegText(j),
                       speaker |-> "SPEAKER_00"]]
         /\ segments = [j \in 1..n |-> j]
    /\ input_cues = heap
    /\ api_key_set \in BOOLEAN
    /\ anthropic_installed \in BOOLEAN
    /\ batch_size \in 0..MaxBatch
    /\ max_retries \in 0..MaxRetries
    /\ progress_given \in BOOLEAN
    /\ batch_index = 0 /\ result = <<>> /\ attempt = 0 /\ last_error = ""
    /\ calls = 0 /\ outcomes = <<>> /\ waits = <<>> /\ sent = <<>>
    /\ responses = <<>> /\ progress = <<>> /\ error = NoError
    /\ ParseIdle /\ OutsideTranslatorIdle

ParseNumberedResponse ==
    /\ pc = "parse"
    /\ parsed' = parse_numbered_response(response, expected_count)
    /\ pc' = "parse_done"
    /\ UNCHANGED <<response, expected_count, translateVars, heapVars,
                   outsideTranslator>>

Raise(type, cause, detail) ==
    /\ error' = [type |-> type, cause |-> cause, detail |-> detail]
    /\ pc' = "translate_failed"

\* lines 170-176: the empty input, and the loop header range(0, total, batch_size)
TranslateSegments ==
    /\ pc = "translate"
    /\ IF Len(segments) = 0
       THEN pc' = "translate_done" /\ UNCHANGED error
       ELSE IF batch_size = 0
       THEN Raise("ValueError", "", "range")
       ELSE pc' = "batch" /\ UNCHANGED error
    /\ UNCHANGED <<translateArgs, batch_index, result, attempt, last_error, calls,
                   outcomes, waits, sent, responses, progress, heapVars,
                   parseVars, outsideTranslator>>

\* lines 177-185 and 53-75: the next batch, up to the first attempt
StartBatch ==
    /\ pc = "batch"
    /\ IF ~api_key_set THEN Raise("TranslationError", "", "api_key")
       ELSE IF ~anthropic_installed THEN Raise("TranslationError", "", "import")
       ELSE IF max_retries <= 0 THEN Raise("TranslationError", "", "None")
       ELSE pc' = "attempt" /\ UNCHANGED error
    /\ attempt' = 0 /\ last_error' = "" /\ calls' = 0 /\ waits' = <<>>
    /\ outcomes' = <<>>
    /\ UNCHANGED <<translateArgs, batch_index, result, sent, responses, progress,
                   heapVars, parseVars, outsideTranslator>>

\* faulty variant: the callback is given the size of the batch, not the count
\* of cues translated so far
AttemptSucceedsBatchCount ==
    /\ pc = "attempt"
    /\ LET batch == batch_slice(segments, batch_index, batch_size)
           texts == batch_texts(heap, batch)
       IN  /\ \E response_text \in Responses(texts) :
                LET translations == parse_numbered_response(response_text, Len(texts))
                    r == AttachTranslations(heap, result, batch, translations, 1)
                IN  /\ heap' = r.heap
                    /\ result' = r.result
                    /\ responses' = Append(responses, response_text)
                    /\ sent' = IF attempt = 0 THEN Append(sent, input_text(texts))
                               ELSE sent
           /\ progress' = IF progress_given
                          THEN Append(progress, <<Len(batch), Len(segments)>>)
                          ELSE progress
    /\ calls' = calls + 1
    /\ outcomes' = Append(outcomes, "response")
    /\ batch_index' = batch_index + batch_size
    /\ pc' = IF batch_index' < Len(segments) THEN "batch" ELSE "translate_done"
    /\ UNCHANGED <<translateArgs, attempt, last_error, waits, error, segments,
                   input_cues, parseVars, outsideTranslator>>

\* lines 77-92 and 187-193: the collaborator answers, the answer is parsed, the
\* translations are attached and progress is reported
AttemptSucceeds ==
    /\ pc = "attempt"
    /\ LET batch == batch_slice(segments, batch_index, batch_size)
           texts == batch_texts(heap, batch)
       IN  \E response_text \in Responses(texts) :
             LET translations == parse_numbered_response(response_text, Len(texts))
                 r == AttachTranslations(heap, result, batch, translations, 1)
             IN  /\ heap' = r.heap
                 /\ result' = r.result
                 /\ responses' = Append(responses, response_text)
                 /\ sent' = IF attempt = 0 THEN Append(sent, input_text(texts))
                            ELSE sent
    /\ calls' = calls + 1
    /\ outcomes' = Append(outcomes, "response")
    /\ progress' = IF progress_given
                   THEN Append(progress,
                          <<Min(batch_index + batch_size, Len(segments)),
                            Len(segments)>>)
                   ELSE progress
    /\ batch_index' = batch_index + batch_size
    /\ pc' = IF batch_index' < Len(segments) THEN "batch" ELSE "translate_done"
    /\ UNCHANGED <<translateArgs, attempt, last_error, waits, error, segments,
                   input_cues, parseVars, outsideTranslator>>

SendPrompt ==
    /\ calls' = calls + 1
    /\ sent' = IF attempt = 0
               THEN Append(sent, input_text(batch_texts(heap,
                              batch_slice(segments, batch_index, batch_size))))
               ELSE sent

\* faulty variant: one attempt more than max_retries
AttemptRateLimitedOnceMore ==
    /\ pc = "attempt"
    /\ SendPrompt
    /\ last_error' = "RateLimitError"
    /\ outcomes' = Append(outcomes, "RateLimitError")
    /\ waits' = Append(waits, RetryDelayBase * (2 ^ attempt))
    /\ attempt' = attempt + 1
    /\ IF attempt + 1 <= max_retries
       THEN pc' = "attempt" /\ UNCHANGED error
       ELSE Raise("TranslationError", "", "RateLimitError")
    /\ UNCHANGED <<translateArgs, batch_index, result, responses, progress,
                   heapVars, parseVars, outsideTranslator>>

\* lines 94-97, 106-108: anthropic.RateLimitError
AttemptRateLimited ==
    /\ pc = "attempt"
    /\ SendPrompt
    /\ last_error' = "RateLimitError"
    /\ outcomes' = Append(outcomes, "RateLimitError")
    /\ waits' = Append(waits, RetryDelayBase * (2 ^ attempt))
    /\ attempt' = attempt + 1
    /\ IF attempt + 1 < max_retries
       THEN pc' = "attempt" /\ UNCHANGED error
       ELSE Raise("TranslationError", "", "RateLimitError")
    /\ UNCHANGED <<translateArgs, batch_index, result, responses, progress,
                   heapVars, parseVars, outsideTranslator>>

\* lines 98-104: any other anthropic.APIError
AttemptApiError ==
    /\ pc = "attempt"
    /\ SendPrompt
    /\ \E e \in ApiErrors :
         /\ last_error' = e
         /\ outcomes' = Append(outcomes, e)
         /\ IF attempt < max_retries - 1
            THEN /\ waits' = Append(waits, RetryDelayBase * (2 ^ attempt))
                 /\ attempt' = attempt + 1
                 /\ pc' = "attempt" /\ UNCHANGED error
            ELSE /\ Raise("TranslationError", e, e)
                 /\ UNCHANGED <<waits, attempt>>
    /\ UNCHANGED <<translateArgs, batch_index, result, responses, progress,
                   heapVars, parseVars, outsideTranslator>>

\* an exception no except clause of translate_batch names leaves it as it is
AttemptOtherError ==
    /\ pc = "attempt"
    /\ SendPrompt
    /\ \E e \in OtherErrors : Raise(e, "", "") /\ outcomes' = Append(outcomes, e)
    /\ UNCHANGED <<translateArgs, batch_index, result, attempt, last_error, waits,
                   responses, progress, heapVars, parseVars, outsideTranslator>>

InitTranslator == InitParse \/ InitTranslate
NextTranslator ==
    \/ ParseNumberedResponse
    \/ TranslateSegments
    \/ StartBatch
    \/ AttemptSucceeds
    \/ AttemptRateLimited
    \/ AttemptApiError
    \/ AttemptOtherError

SpecTranslator == InitTranslator /\ [][NextTranslator]_vars

\* a call of translate_segments alone; the code is sequential, so a call that
\* can take a step takes it
NextTranslate ==
    \/ TranslateSegments
    \/ StartBatch
    \/ AttemptSucceeds
    \/ AttemptRateLimited
    \/ AttemptApiError
    \/ AttemptOtherError

\* translate_segments does not stop between two statements, and a collaborator
\* call that is pending returns or raises.  An attempt can always end by
\* raising, so fairness of the raising outcomes is all that keeps a call from
\* standing still in the retry loop.
SpecTranslate ==
    /\ InitTranslate /\ [][NextTranslate]_vars
    /\ WF_vars(TranslateSegments \/ StartBatch)
    /\ WF_vars(AttemptRateLimited \/ AttemptApiError \/ AttemptOtherError)

----------------------------------------------------------------------------
(* utils/time_utils.py: seconds_to_ass_time and ass_time_to_seconds *)

\* A float of seconds is a whole number of ticks of 1/1024 s: such values are
\* exact in binary floating point, and so are the results of //, % and the
\* rounding of the format specification on them.  A parsed value is a whole
\* number of milliseconds.
TicksPerSecond == 1024
MsPerSecond == 1000

\* the rounding of a format specification: to nearest, ties to even
RoundHalfEven(n, d) ==
    LET q == n \div d
        r == n % d
    IN  IF 2 * r < d THEN q
        ELSE IF 2 * r > d THEN q + 1
        ELSE IF q % 2 = 0 THEN q ELSE q + 1

\* "{n:02d}" of a natural number
Pad2(n) == IF n < 10 THEN <<"0">> \o IntToChars(n) ELSE IntToChars(n)

\* "{secs:05.2f}" of secs ticks, secs >= 0
FormatSecs(secs) ==
    LET centis == RoundHalfEven(secs * 100, TicksPerSecond)
    IN  Pad2(centis \div 100) \o <<".">> \o Pad2(centis % 100)

\* faulty variant: the minutes are not reduced modulo the hour
seconds_to_ass_time_total_minutes(t) ==
    LET s == IF t < 0 THEN 0 ELSE t
        hours == s \div (3600 * TicksPerSecond)
        minutes == s \div (60 * TicksPerSecond)
        secs == s % (60 * TicksPerSecond)
    IN  IntToChars(hours) \o <<":">> \o Pad2(minutes) \o <<":">> \o FormatSecs(secs)

\* lines 14-22
seconds_to_ass_time(t) ==
    LET s == IF t < 0 THEN 0 ELSE t
        hours == s \div (3600 * TicksPerSecond)
        minutes == (s % (3600 * TicksPerSecond)) \div (60 * TicksPerSecond)
        secs == s % (60 * TicksPerSecond)
    IN  IntToChars(hours) \o <<":">> \o Pad2(minutes) \o <<":">> \o FormatSecs(secs)

\* str.split(sep)
RECURSIVE SplitOn(_, _)
SplitOn(str, sep) ==
    IF \E k \in 1..Len(str) : str[k] = sep
    THEN LET k == CHOOSE j \in 1..Len(str) :
                    str[j] = sep /\ \A h \in 1..(j - 1) : str[h] # sep
         IN  <<SubSeq(str, 1, k - 1)>> \o SplitOn(SubSeq(str, k + 1, Len(str)), sep)
    ELSE <<str>>

Signs == {"-", "+"}
Unsigned(str) == IF str # <<>> /\ Head(str) \in Signs THEN Tail(str) ELSE str
SignOf(str) == IF str # <<>> /\ Head(str) = "-" THEN -1 ELSE 1
AllDigits(str) == \A k \in 1..Len(str) : str[k] \in Digits

\* int(str): surrounding whitespace, an optional sign, one or more digits
IntAccepts(str) ==
    LET u == Unsigned(Strip(str)) IN u # <<>> /\ AllDigits(u)
IntValue(str) == SignOf(Strip(str)) * IntOf(Unsigned(Strip(str)))

\* float(str): surrounding whitespace, an optional sign, digits with at most
\* one decimal point and at least one digit
FloatAccepts(str) ==
    LET u == Unsigned(Strip(str))
        parts == SplitOn(u, ".")
    IN  /\ Len(parts) \in {1, 2}
        /\ \A k \in 1..Len(parts) : AllDigits(parts[k])
        /\ \E k \in 1..Len(parts) : parts[k] # <<>>

\* digits after the decimal point, as thousandths
RECURSIVE Thousandths(_, _)
Thousandths(ds, weight) ==
    IF ds = <<>> \/ weight = 0 THEN 0
    ELSE weight * DigitValue(Head(ds)) + Thousandths(Tail(ds), weight \div 10)

\* the value of float(str) in milliseconds
FloatValue(str) ==
    LET u == Unsigned(Strip(str))
        parts == SplitOn(u, ".")
        frac == IF Len(parts) = 2 THEN parts[2] ELSE <<>>
    IN  SignOf(Strip(str)) *
          (MsPerSecond * IntOf(parts[1]) + Thousandths(frac, MsPerSecond \div 10))

\* faulty variant: fields after the third are ignored
ass_time_to_seconds_first_three(str) ==
    LET parts == SplitOn(str, ":")
    IN  IF Len(parts) < 3 THEN [error |-> "ValueError", value |-> 0]
        ELSE IF ~(IntAccepts(parts[1]) /\ IntAccepts(parts[2])
                    /\ FloatAccepts(parts[3]))
        THEN [error |-> "ValueError", value |-> 0]
        ELSE [error |-> "",
              value |-> IntValue(parts[1]) * 3600 * MsPerSecond
                          + IntValue(parts[2]) * 60 * MsPerSecond
                          + FloatValue(parts[3])]

\* lines 38-50
ass_time_to_seconds(str) ==
    LET parts == SplitOn(str, ":")
    IN  IF Len(parts) # 3 THEN [error |-> "ValueError", value |-> 0]
        ELSE IF ~(IntAccepts(parts[1]) /\ IntAccepts(parts[2])
                    /\ FloatAccepts(parts[3]))
        THEN [error |-> "ValueError", value |-> 0]
        ELSE [error |-> "",
              value |-> IntValue(parts[1]) * 3600 * MsPerSecond
                          + IntValue(parts[2]) * 60 * MsPerSecond
                          + FloatValue(parts[3])]

----------------------------------------------------------------------------
(* The time conversions as a state machine *)

MaxHours == 1       \* whole hours of a time given to seconds_to_ass_time
MaxTimeLen == 5     \* characters of a string given to ass_time_to_seconds

MinuteChoices == {0, 1, 59}
SecondChoices == {0, 1, 59}
TimeAlphabet == {"0", "1", ":", ".", "-", " ", "a"}

\* time strings of the shapes the parser distinguishes
TimeChoices ==
    {<<"0", ":", "0", "0", ":", "0", "0", ".", "0", "0">>,
     <<"1", ":", "0", "1", ":", "0", "1", ".", "0", "0">>,
     <<"0", ":", "0", "0", ":", "0", "1", ".", "5", "0">>,
     <<"1", "2", ":", "5", "9", ":", "5", "9", ".", "9", "9">>,
     <<"0", ":", "0", "0", ":", "6", "0", ".", "0", "0">>,
     <<"0", ":", "6", "1", ":", "0", "0", ".", "0", "0">>,
     <<"1", ":", "2", ":", "3">>,
     <<"0", ":", "1", ":", "2", ".", "3", "4", "5">>,
     <<" ", "1", ":", "0", "2", ":", "0", "3", ".", "5">>,
     <<"-", "1", ":", "0", "0", ":", "0", "0", ".", "0", "0">>,
     <<"0", ":", "0", "0", ":", "-", "1", ".", "0", "0">>,
     <<"0", "0", ":", "0", "0">>,
     <<"i", "n", "v", "a", "l", "i", "d">>,
     <<"1", ":", "0", "1", ":", "0", "1", ":", "0", "0">>,
     <<"0", ":", "0", "a", ":", "0", "0", ".", "0", "0">>,
     <<"0", ":", "0", "0", ":", "a", "a", ".", "0", "0">>,
     <<"0", ":", "0", "0", ":", "1", ".", "2", ".", "3">>,
     <<"0", ":", "0", "0", ":", "0", "0", ",", "0", "0">>}

outsideTime == <<findVars, mergeVars, diarVars, consVars, parseVars,
                 translateVars, assVars, pipeVars>>
OutsideTimeIdle ==
    /\ FindIdle /\ MergeIdle /\ DiarIdle /\ ConsIdle /\ ParseIdle
    /\ TranslateIdle /\ AssIdle /\ PipeIdle

\* a call seconds_to_ass_time(seconds)
InitFormat ==
    /\ pc = "format"
    /\ \E h \in 0..MaxHours, m \in MinuteChoices, s \in SecondChoices,
          f \in 0..(TicksPerSecond - 1), sign \in {1, -1} :
         seconds = sign * (((h * 60 + m) * 60 + s) * TicksPerSecond + f)
    /\ time_str = <<>>
    /\ time_result = NoTime
    /\ OutsideTimeIdle

\* a call ass_time_to_seconds(time_str)
InitToSeconds ==
    /\ pc = "to_seconds"
    /\ seconds = 0
    /\ time_str \in SeqsUpTo(TimeAlphabet, MaxTimeLen) \cup TimeChoices
    /\ time_result = NoTime
    /\ OutsideTimeIdle

SecondsToAssTime ==
    /\ pc = "format"
    /\ time_str' = seconds_to_ass_time(seconds)
    /\ pc' = "format_done"
    /\ UNCHANGED <<seconds, time_result, outsideTime>>

\* ass_time_to_seconds on a string given by the caller, or on the string that
\* seconds_to_ass_time has just returned
AssTimeToSeconds ==
    /\ pc \in {"to_seconds", "format_done"}
    /\ time_result' = ass_time_to_seconds(time_str)
    /\ pc' = IF pc = "format_done" THEN "roundtrip_done"
             ELSE IF time_result'.error = "" THEN "to_seconds_done"
             ELSE "to_seconds_failed"
    /\ UNCHANGED <<seconds, time_str, outsideTime>>

InitTime == InitFormat \/ InitToSeconds
NextTime == SecondsToAssTime \/ AssTimeToSeconds

SpecTime == InitTime /\ [][NextTime]_vars

----------------------------------------------------------------------------
(* utils/ass_generator.py *)

\* A cue text is a sequence of characters.  The fixed parts of a line (the
\* templates' literal text, a speaker label, a color) are one token each.
BS == "\\"

\* lines 8-14: SPEAKER_COLORS
SPEAKER_COLORS ==
    [l \in {"SPEAKER_00", "SPEAKER_01", "SPEAKER_02", "SPEAKER_03", "UNKNOWN"} |->
        CASE l = "SPEAKER_00" -> "&H00FFFFFF"
          [] l = "SPEAKER_01" -> "&H0000FFFF"
          [] l = "SPEAKER_02" -> "&H00FF8080"
          [] l = "SPEAKER_03" -> "&H008000FF"
          [] l = "UNKNOWN" -> "&H00C0C0C0"]

\* lines 17-20: DEFAULT_STYLE_TEMPLATE.format(name=name, color=color)
DEFAULT_STYLE_TEMPLATE(name, color) ==
    <<"Style: ", name, ",Arial,48,", color,
      ",&H000000FF,&H00000000,&H80000000,0,0,0,0,100,100,0,0,1,2,1,2,10,10,10,1">>

\* lines 22-35: ASS_HEADER.format(styles=styles)
ASS_HEADER(styles) ==
    <<"[Script Info]", NL, "Title: Generated Subtitles", NL,
      "ScriptType: v4.00+", NL, "PlayResX: 1920", NL, "PlayResY: 1080", NL,
      "WrapStyle: 0", NL, NL, "[V4+ Styles]", NL,
      "Format: Name, Fontname, Fontsize, PrimaryColour, SecondaryColour, OutlineColour, BackColour, Bold, Italic, Underline, StrikeOut, ScaleX, ScaleY, Spacing, Angle, BorderStyle, Outline, Shadow, Alignment, MarginL, MarginR, MarginV, Encoding",
      NL>>
    \o styles
    \o <<NL, NL, "[Events]", NL,
         "Format: Layer, Start, End, Style, Name, MarginL, MarginR, MarginV, Effect, Text",
         NL>>

\* dict.get(key, default)
Get(d, key, default) == IF key \in DOMAIN d THEN d[key] ELSE default

\* faulty variant: "UNKNOWN" is appended whether or not it is among the speakers
generate_styles_always_unknown(speakers) ==
    JoinLines([k \in 1..Len(speakers) |->
                  DEFAULT_STYLE_TEMPLATE(speakers[k],
                      Get(SPEAKER_COLORS, speakers[k], SPEAKER_COLORS["UNKNOWN"]))]
              \o <<DEFAULT_STYLE_TEMPLATE("UNKNOWN", SPEAKER_COLORS["UNKNOWN"])>>)

\* lines 48-63
generate_styles(speakers) ==
    JoinLines([k \in 1..Len(speakers) |->
                  DEFAULT_STYLE_TEMPLATE(speakers[k],
                      Get(SPEAKER_COLORS, speakers[k], SPEAKER_COLORS["UNKNOWN"]))]
              \o (IF \E k \in 1..Len(speakers) : speakers[k] = "UNKNOWN"
                  THEN <<>>
                  ELSE <<DEFAULT_STYLE_TEMPLATE("UNKNOWN", SPEAKER_COLORS["UNKNOWN"])>>))

\* str.replace(old, new) for a one-character old
RECURSIVE Replace(_, _, _)
Replace(text, old, new) ==
    IF text = <<>> THEN <<>>
    ELSE (IF Head(text) = old THEN new ELSE <<Head(text)>>)
           \o Replace(Tail(text), old, new)

\* faulty variant: the closing brace is not replaced
escape_ass_text_open_only(text) ==
    Replace(Replace(text, NL, <<BS, "N">>), "{", <<BS, "{">>)

\* lines 77-80
escape_ass_text(text) ==
    Replace(Replace(Replace(text, NL, <<BS, "N">>), "{", <<BS, "{">>),
            "}", <<BS, "}">>)

\* faulty variant: the translation comes first
generate_dialogue_line_zh_first(start, end, speaker, text_ja, text_zh) ==
    <<"Dialogue: 0,">> \o seconds_to_ass_time(start) \o <<",">>
      \o seconds_to_ass_time(end) \o <<",", speaker, ",,0,0,0,,">>
      \o (IF text_zh # <<>>
          THEN escape_ass_text(text_zh) \o <<BS, "N">> \o escape_ass_text(text_ja)
          ELSE escape_ass_text(text_ja))

\* lines 103-112
generate_dialogue_line(start, end, speaker, text_ja, text_zh) ==
    <<"Dialogue: 0,">> \o seconds_to_ass_time(start) \o <<",">>
      \o seconds_to_ass_time(end) \o <<",", speaker, ",,0,0,0,,">>
      \o (IF text_zh # <<>>
          THEN escape_ass_text(text_ja) \o <<BS, "N">> \o escape_ass_text(text_zh)
          ELSE escape_ass_text(text_ja))

\* the speaker labels of the model, in the order of sorted()
LabelOrder == <<"SPEAKER_00", "SPEAKER_01", "UNKNOWN", "alice">>

\* line 143: sorted(set(...)) of a set of labels
RECURSIVE SortedFrom(_, _)
SortedFrom(S, k) ==
    IF k > Len(LabelOrder) THEN <<>>
    ELSE (IF LabelOrder[k] \in S THEN <<LabelOrder[k]>> ELSE <<>>)
           \o SortedFrom(S, k + 1)

\* the cues in order of start time (stable)
RECURSIVE ByStart(_)
ByStart(segs) ==
    IF segs = <<>> THEN <<>>
    ELSE LET k == CHOOSE i \in 1..Len(segs) :
                    /\ \A j \in 1..Len(segs) : segs[i].start <= segs[j].start
                    /\ \A j \in 1..(i - 1) : segs[j].start # segs[i].start
         IN  <<segs[k]>>
               \o ByStart(SubSeq(segs, 1, k - 1) \o SubSeq(segs, k + 1, Len(segs)))

\* faulty variant: the Dialogue lines are written in order of start time
ass_content_by_time(segs, include) ==
    LET speakers == SortedFrom({Get(segs[k], "speaker", "UNKNOWN") : k \in 1..Len(segs)}, 1)
        styles == generate_styles(speakers)
        sorted == ByStart(segs)
        dialogues == [k \in 1..Len(sorted) |->
                        generate_dialogue_line(
                            sorted[k].start, sorted[k].end,
                            Get(sorted[k], "speaker", "UNKNOWN"),
                            Get(sorted[k], "text", <<>>),
                            IF include THEN Get(sorted[k], "translation", <<>>) ELSE <<>>)]
    IN  ASS_HEADER(styles) \o JoinLines(dialogues) \o <<NL>>

\* lines 143-165: the text written for a non-empty list of cues
ass_content(segs, include) ==
    LET speakers == SortedFrom({Get(segs[k], "speaker", "UNKNOWN") : k \in 1..Len(segs)}, 1)
        styles == generate_styles(speakers)
        dialogues == [k \in 1..Len(segs) |->
                        generate_dialogue_line(
                            segs[k].start, segs[k].end,
                            Get(segs[k], "speaker", "UNKNOWN"),
                            Get(segs[k], "text", <<>>),
                            IF include THEN Get(segs[k], "translation", <<>>) ELSE <<>>)]
    IN  ASS_HEADER(styles) \o JoinLines(dialogues) \o <<NL>>

----------------------------------------------------------------------------
(* The subtitle generator as a state machine *)

MaxTextLen == 4     \* characters of a text given to escape_ass_text
MaxAssCues == 2     \* cues given to generate_ass

EscapeAlphabet == {"a", NL, "{", "}", BS, "N"}

\* cues of the shapes generate_ass distinguishes: keys present or missing, texts
\* and translations empty or not, labels in and outside SPEAKER_COLORS
CueChoices ==
    {[start |-> 0, end |-> TicksPerSecond, speaker |-> "SPEAKER_00",
      text |-> <<"a">>, translation |-> <<"b">>],
     [start |-> 61 * TicksPerSecond + 512, end |-> 62 * TicksPerSecond,
      speaker |-> "SPEAKER_01", text |-> <<"{", "a", "}">>,
      translation |-> <<"b", NL, "c">>],
     [start |-> 2 * TicksPerSecond, end |-> 3 * TicksPerSecond,
      speaker |-> "UNKNOWN", text |-> <<"a">>, translation |-> <<>>],
     [start |-> TicksPerSecond, end |-> 2 * TicksPerSecond,
      text |-> <<"a", NL>>],
     [start |-> 0, end |-> 512, speaker |-> "alice", text |-> <<>>,
      translation |-> <<>>],
     [start |-> 0, end |-> 512, speaker |-> "SPEAKER_00", text |-> <<>>,
      translation |-> <<"b">>],
     [start |-> 3 * TicksPerSecond, end |-> 4 * TicksPerSecond,
      speaker |-> "alice", translation |-> <<"b">>]}

\* the output directory and file before the call
OldFile == [exists |-> TRUE, content |-> <<"old", NL>>]
FsChoices == {<<FALSE, NoFile>>, <<TRUE, NoFile>>, <<TRUE, OldFile>>}

outsideAss == <<findVars, mergeVars, diarVars, consVars, parseVars,
                translateVars, timeVars, pipeVars>>
OutsideAssIdle ==
    /\ FindIdle /\ MergeIdle /\ DiarIdle /\ ConsIdle /\ ParseIdle
    /\ TranslateIdle /\ TimeIdle /\ PipeIdle

\* a call escape_ass_text(ass_text)
InitEscape ==
    /\ pc = "escape"
    /\ ass_text \in SeqsUpTo(EscapeAlphabet, MaxTextLen)
    /\ escaped = <<>>
    /\ ass_segments = <<>> /\ include_translation = FALSE /\ ass_error = ""
    /\ FsIdle
    /\ OutsideAssIdle

\* a call generate_ass(ass_segments, output_path, include_translation)
InitGenerate ==
    /\ pc = "generate"
    /\ ass_segments \in SeqsUpTo(CueChoices, MaxAssCues)
    /\ include_translation \in BOOLEAN
    /\ \E fs \in FsChoices : dir_exists = fs[1] /\ out_file = fs[2]
    /\ fs_ops = <<>>
    /\ ass_error = ""
    /\ EscapeIdle
    /\ OutsideAssIdle

EscapeAssText ==
    /\ pc = "escape"
    /\ escaped' = escape_ass_text(ass_text)
    /\ pc' = "escape_done"
    /\ UNCHANGED <<ass_text, ass_segments, include_translation, fsVars,
                   ass_error, outsideAss>>

\* faulty variant: the directory is made before the list is looked at
GenerateAssMkdirFirst ==
    /\ pc = "generate"
    /\ IF ass_segments = <<>>
       THEN /\ ass_error' = "ValueError"
            /\ pc' = "generate_failed"
            /\ dir_exists' = TRUE
            /\ fs_ops' = fs_ops \o <<"mkdir">>
            /\ UNCHANGED out_file
       ELSE /\ dir_exists' = TRUE
            /\ out_file' = [exists |-> TRUE,
                            content |-> ass_content(ass_segments, include_translation)]
            /\ fs_ops' = fs_ops \o <<"mkdir", "open", "write">>
            /\ pc' = "generate_done"
            /\ UNCHANGED ass_error
    /\ UNCHANGED <<escapeVars, ass_segments, include_translation, outsideAss>>

\* lines 136-171
GenerateAss ==
    /\ pc = "generate"
    /\ IF ass_segments = <<>>
       THEN /\ ass_error' = "ValueError"
            /\ pc' = "generate_failed"
            /\ UNCHANGED fsVars
       ELSE /\ dir_exists' = TRUE
            /\ out_file' = [exists |-> TRUE,
                            content |-> ass_content(ass_segments, include_translation)]
            /\ fs_ops' = fs_ops \o <<"mkdir", "open", "write">>
            /\ pc' = "generate_done"
            /\ UNCHANGED ass_error
    /\ UNCHANGED <<escapeVars, ass_segments, include_translation, outsideAss>>

InitAss == InitEscape \/ InitGenerate
NextAss == EscapeAssText \/ GenerateAss

SpecAss == InitAss /\ [][NextAss]_vars

----------------------------------------------------------------------------
(* core/pipeline.py: process_video *)

\* the pipeline's times are in half seconds
TicksPerHalfSecond == 512

\* merger.py:95-96: consolidate_segments is called with its defaults,
\* max_gap = 0.5 s and max_duration = 10.0 s
DEFAULT_MAX_GAP == 1
DEFAULT_MAX_DURATION == 20

\* a progress ratio is a fraction <<numerator, denominator>>
Ratio(percent) == <<percent, 100>>

\* faulty variant: the translation step is given the range 0.65 to 1.0
translation_progress_wide(current, total) ==
    <<65 * total + 35 * current, 100 * total>>

\* lines 120-123: ratio = 0.65 + (current / total) * 0.25
translation_progress(current, total) ==
    <<65 * total + 25 * current, 100 * total>>

\* what the collaborators give in the model: transcribe a list of segments,
\* diarize a list of speaker turns, or each its own exception
PipelineTranscripts ==
    {<<>>,
     <<[start |-> 0, end |-> 2, text |-> SegText(1)]>>,
     <<[start |-> 0, end |-> 2, text |-> SegText(1)],
       [start |-> 2, end |-> 4, text |-> SegText(2)],
       [start |-> 30, end |-> 32, text |-> SegText(3)]>>}
PipelineTurns ==
    {<<>>,
     <<[start |-> 0, end |-> 4, speaker |-> "SPEAKER_00"],
       [start |-> 30, end |-> 32, speaker |-> "SPEAKER_01"]>>,
     <<[start |-> 0, end |-> 2, speaker |-> "SPEAKER_00"],
       [start |-> 2, end |-> 4, speaker |-> "SPEAKER_01"]>>}
ExtractErrors == {"AudioExtractionError"}
TranscribeErrors == {"TranscriptionError"}
DiarizeErrors == {"DiarizationError"}
TranslateErrors == {"TranslationError"} \cup OtherErrors

\* a task of the executor: not submitted, running, or finished with a result
\* or with an exception held by its future
NoTask == [state |-> "none", result |-> <<>>, exception |-> ""]
Running == [state |-> "running", result |-> <<>>, exception |-> ""]
Done(value) == [state |-> "done", result |-> value, exception |-> ""]
Failed(e) == [state |-> "failed", result |-> <<>>, exception |-> e]

\* the translated cues as generate_ass reads them, times in ticks
AssCues(h, ids) ==
    [k \in 1..Len(ids) |->
        [start |-> h[ids[k]].start * TicksPerHalfSecond,
         end |-> h[ids[k]].end * TicksPerHalfSecond,
         speaker |-> h[ids[k]].speaker,
         text |-> h[ids[k]].text,
         translation |-> h[ids[k]].translation]]

----------------------------------------------------------------------------
(* The pipeline as a state machine *)

pipeUntouched == <<findVars, overlap_ops, input_cues, max_gap, max_duration,
                   parseVars, translateArgs, attempt, last_error, calls,
                   outcomes, waits, sent, responses, timeVars, escapeVars>>
pipeInputs == <<transcription_segments, diarVars>>
pipeCues == <<merged, heap, segments, consolidated>>
pipeTranslation == <<batch_index, result, progress>>
assCall == <<ass_segments, include_translation, fsVars, ass_error>>

\* a call process_video(video_path, config, progress_callback)
InitPipeline ==
    /\ pc = "pv_start"
    /\ video_exists \in BOOLEAN
    /\ enable_diarization \in BOOLEAN
    /\ callback_given \in BOOLEAN
    /\ api_key_set \in BOOLEAN
    /\ anthropic_installed = TRUE
    /\ batch_size \in 0..MaxBatch
    /\ max_retries = MaxRetries
    /\ progress_given = TRUE
    /\ \E fs \in FsChoices : dir_exists = fs[1] /\ out_file = fs[2]
    /\ rec_task = NoTask /\ diar_task = NoTask
    /\ pending = "" /\ steps = <<>> /\ reports = <<>> /\ audio_file = FALSE
    /\ batch_index = 0 /\ result = <<>> /\ attempt = 0 /\ last_error = ""
    /\ calls = 0 /\ outcomes = <<>> /\ waits = <<>> /\ sent = <<>>
    /\ responses = <<>> /\ progress = <<>> /\ error = NoError
    /\ ass_segments = <<>> /\ include_translation = FALSE
    /\ fs_ops = <<>> /\ ass_error = ""
    /\ FindIdle /\ MergeIdle /\ DiarIdle /\ ConsIdle /\ ParseIdle
    /\ TimeIdle /\ EscapeIdle

\* lines 57-59: report_progress, once for each ratio of rs
Report(rs) == reports' = IF callback_given THEN reports \o rs ELSE reports

\* faulty variant: the exception leaves process_video as it is
PipelineFailsUnwrapped(e) ==
    /\ error' = [type |-> e, cause |-> "", detail |-> e]
    /\ pc' = "pv_failed"

\* lines 152-153: raise PipelineError(f"Pipeline failed: {e}") from e
PipelineFails(e) ==
    /\ error' = [type |-> "PipelineError", cause |-> e, detail |-> e]
    /\ pc' = "pv_failed"

\* lines 52-55: the check of video_path, before the try
ProcessVideo ==
    /\ pc = "pv_start"
    /\ IF ~video_exists
       THEN /\ error' = [type |-> "FileNotFoundError", cause |-> "",
                         detail |-> "video_path"]
            /\ pc' = "pv_failed"
       ELSE pc' = "pv_extract" /\ UNCHANGED error
    /\ UNCHANGED <<pipeVars, pipeInputs, pipeCues, pipeTranslation, assCall,
                   pipeUntouched>>

\* lines 63-65: extract_audio returns the path of the audio file or raises
ExtractAudio ==
    /\ pc = "pv_extract"
    /\ steps' = Append(steps, "extract_audio")
    /\ \/ /\ audio_file' = TRUE
          /\ Report(<<Ratio(5), Ratio(10)>>)
          /\ pc' = IF enable_diarization THEN "pv_submit" ELSE "pv_transcribe"
          /\ UNCHANGED error
       \/ /\ \E e \in ExtractErrors : PipelineFails(e)
          /\ Report(<<Ratio(5)>>)
          /\ UNCHANGED audio_file
    /\ UNCHANGED <<pipeArgs, taskVars, pending, pipeInputs, pipeCues,
                   pipeTranslation, assCall, pipeUntouched>>

\* lines 72-90: both tasks are submitted to the executor of two workers
SubmitTasks ==
    /\ pc = "pv_submit"
    /\ Report(<<Ratio(15)>>)
    /\ rec_task' = Running /\ diar_task' = Running
    /\ pc' = "pv_take_transcription"
    /\ UNCHANGED <<pipeArgs, pending, steps, audio_file, error, pipeInputs,
                   pipeCues, pipeTranslation, assCall, pipeUntouched>>

\* lines 76-83, in a worker: transcribe returns or raises
TranscribeTask ==
    /\ rec_task.state = "running"
    /\ steps' = Append(steps, "transcribe")
    /\ \/ \E t \in PipelineTranscripts : rec_task' = Done(t)
       \/ \E e \in TranscribeErrors : rec_task' = Failed(e)
    /\ UNCHANGED <<pc, pipeArgs, diar_task, pending, reports, audio_file, error,
                   pipeInputs, pipeCues, pipeTranslation, assCall, pipeUntouched>>

\* lines 85-90, in a worker: diarize returns or raises
DiarizeTask ==
    /\ diar_task.state = "running"
    /\ steps' = Append(steps, "diarize")
    /\ \/ \E d \in PipelineTurns : diar_task' = Done(d)
       \/ \E e \in DiarizeErrors : diar_task' = Failed(e)
    /\ UNCHANGED <<pc, pipeArgs, rec_task, pending, reports, audio_file, error,
                   pipeInputs, pipeCues, pipeTranslation, assCall, pipeUntouched>>

\* lines 92-93: transcribe_future.result() blocks until the task has finished,
\* then returns its result or raises its exception
TakeTranscription ==
    /\ pc = "pv_take_transcription"
    /\ rec_task.state \in {"done", "failed"}
    /\ IF rec_task.state = "done"
       THEN /\ transcription_segments' = rec_task.result
            /\ Report(<<Ratio(40)>>)
            /\ pc' = "pv_take_diarization"
            /\ UNCHANGED pending
       ELSE /\ pending' = rec_task.exception
            /\ pc' = "pv_leave_executor"
            /\ UNCHANGED <<transcription_segments, reports>>
    /\ UNCHANGED <<pipeArgs, taskVars, steps, audio_file, error, diarVars,
                   pipeCues, pipeTranslation, assCall, pipeUntouched>>

\* faulty variant: when diarization fails the run goes on without speakers
TakeDiarizationOrNone ==
    /\ pc = "pv_take_diarization"
    /\ diar_task.state \in {"done", "failed"}
    /\ IF diar_task.state = "done"
       THEN /\ diarization_segments' = diar_task.result
            /\ diarization_given' = TRUE
       ELSE UNCHANGED diarVars
    /\ Report(<<Ratio(50)>>)
    /\ pc' = "pv_merge"
    /\ UNCHANGED pending
    /\ UNCHANGED <<pipeArgs, taskVars, steps, audio_file, error,
                   transcription_segments, pipeCues, pipeTranslation, assCall,
                   pipeUntouched>>

\* lines 95-96: diarize_future.result(), likewise; on success the `with` block
\* is left with both tasks finished
TakeDiarization ==
    /\ pc = "pv_take_diarization"
    /\ diar_task.state \in {"done", "failed"}
    /\ IF diar_task.state = "done"
       THEN /\ diarization_segments' = diar_task.result
            /\ diarization_given' = TRUE
            /\ Report(<<Ratio(50)>>)
            /\ pc' = "pv_merge"
            /\ UNCHANGED pending
       ELSE /\ pending' = diar_task.exception
            /\ pc' = "pv_leave_executor"
            /\ UNCHANGED <<diarVars, reports>>
    /\ UNCHANGED <<pipeArgs, taskVars, steps, audio_file, error,
                   transcription_segments, pipeCues, pipeTranslation, assCall,
                   pipeUntouched>>

\* faulty variant: the executor is shut down without waiting for its tasks
LeaveExecutorNoWait ==
    /\ pc = "pv_leave_executor"
    /\ PipelineFails(pending)
    /\ UNCHANGED <<pipeVars, pipeInputs, pipeCues, pipeTranslation, assCall,
                   pipeUntouched>>

\* lines 75, 152-153: an exception leaves the `with` block; the executor's
\* __exit__ is shutdown(wait=True), which returns when both tasks have
\* finished; then the except clause wraps the exception
LeaveExecutor ==
    /\ pc = "pv_leave_executor"
    /\ rec_task.state # "running" /\ diar_task.state # "running"
    /\ PipelineFails(pending)
    /\ UNCHANGED <<pipeVars, pipeInputs, pipeCues, pipeTranslation, assCall,
                   pipeUntouched>>

\* lines 97-107: without diarization transcribe is called directly
TranscribeDirect ==
    /\ pc = "pv_transcribe"
    /\ steps' = Append(steps, "transcribe")
    /\ \/ /\ \E t \in PipelineTranscripts : transcription_segments' = t
          /\ Report(<<Ratio(15), Ratio(50)>>)
          /\ pc' = "pv_merge"
          /\ UNCHANGED error
       \/ /\ \E e \in TranscribeErrors : PipelineFails(e)
          /\ Report(<<Ratio(15)>>)
          /\ UNCHANGED transcription_segments
    /\ UNCHANGED <<pipeArgs, taskVars, pending, audio_file, diarVars, pipeCues,
                   pipeTranslation, assCall, pipeUntouched>>

\* lines 110-115: merge_segments, then consolidate_segments on its result
MergeAndConsolidate ==
    /\ pc = "pv_merge"
    /\ LET m == merge_segments(transcription_segments, diarization_given,
                               diarization_segments)
           ids == [i \in 1..Len(m) |-> i]
           r == consolidate_segments(m, ids, DEFAULT_MAX_GAP, DEFAULT_MAX_DURATION)
       IN  /\ merged' = m
           /\ segments' = ids
           /\ heap' = r.heap
           /\ consolidated' = r.result
    /\ steps' = steps \o <<"merge_segments", "consolidate_segments">>
    /\ Report(<<Ratio(55), Ratio(60)>>)
    /\ pc' = "pv_translate_segments"
    /\ UNCHANGED <<pipeArgs, taskVars, pending, audio_file, error, pipeInputs,
                   pipeTranslation, assCall, pipeUntouched>>

\* faulty variant: the output file is created before the translation starts
TranslateSegmentsCallOpensFile ==
    /\ pc = "pv_translate_segments"
    /\ steps' = Append(steps, "translate_segments")
    /\ Report(<<Ratio(65)>>)
    /\ IF consolidated = <<>> THEN pc' = "pv_translated" /\ UNCHANGED error
       ELSE IF batch_size = 0 THEN PipelineFails("ValueError")
       ELSE pc' = "pv_batch" /\ UNCHANGED error
    /\ out_file' = [exists |-> TRUE, content |-> <<>>]
    /\ fs_ops' = fs_ops \o <<"open">>
    /\ UNCHANGED <<pipeArgs, taskVars, pending, audio_file, pipeInputs, pipeCues,
                   pipeTranslation, ass_segments, include_translation,
                   dir_exists, ass_error, pipeUntouched>>

\* lines 118, 125-132 and translator.py:170-176: translate_segments is called
\* on the consolidated cues; the empty list, and range(0, total, batch_size)
TranslateSegmentsCall ==
    /\ pc = "pv_translate_segments"
    /\ steps' = Append(steps, "translate_segments")
    /\ Report(<<Ratio(65)>>)
    /\ IF consolidated = <<>> THEN pc' = "pv_translated" /\ UNCHANGED error
       ELSE IF batch_size = 0 THEN PipelineFails("ValueError")
       ELSE pc' = "pv_batch" /\ UNCHANGED error
    /\ UNCHANGED <<pipeArgs, taskVars, pending, audio_file, pipeInputs, pipeCues,
                   pipeTranslation, assCall, pipeUntouched>>

\* translator.py:177-193 and lines 120-123: one batch; translate_batch returns
\* one translation for each text, possibly empty, or raises; then the cues are
\* copied with their translations and translation_progress is called
TranslateBatch ==
    /\ pc = "pv_batch"
    /\ steps' = Append(steps, "translate_batch")
    /\ LET total == Len(consolidated)
           batch == batch_slice(consolidated, batch_index, batch_size)
           texts == batch_texts(heap, batch)
           current == Min(batch_index + batch_size, total)
       IN  \/ /\ api_key_set
              /\ \E translations \in {[j \in 1..Len(texts) |-> Translated(texts[j])],
                                      [j \in 1..Len(texts) |-> <<>>]} :
                   LET r == AttachTranslations(heap, result, batch, translations, 1)
                   IN  heap' = r.heap /\ result' = r.result
              /\ progress' = Append(progress, <<current, total>>)
              /\ Report(<<translation_progress(current, total)>>)
              /\ batch_index' = batch_index + batch_size
              /\ pc' = IF batch_index' < total THEN "pv_batch" ELSE "pv_translated"
              /\ UNCHANGED error
           \/ /\ \E e \in TranslateErrors :
                   /\ api_key_set \/ e = "TranslationError"
                   /\ PipelineFails(e)
              /\ UNCHANGED <<heap, pipeTranslation, reports>>
    /\ UNCHANGED <<pipeArgs, taskVars, pending, audio_file, pipeInputs, merged,
                   segments, consolidated, assCall, pipeUntouched>>

\* lines 133-141: the last reports before the file, and the call of
\* generate_ass on the translated cues
CallGenerateAss ==
    /\ pc = "pv_translated"
    /\ Report(<<Ratio(90), Ratio(92)>>)
    /\ steps' = Append(steps, "generate_ass")
    /\ ass_segments' = AssCues(heap, result)
    /\ include_translation' = TRUE
    /\ pc' = "generate"
    /\ UNCHANGED <<pipeArgs, taskVars, pending, audio_file, error, pipeInputs,
                   pipeCues, pipeTranslation, fsVars, ass_error, pipeUntouched>>

\* lines 141-153: generate_ass has returned or raised; on return 1.0 is
\* reported and the audio file removed (an OSError of os.remove is ignored)
FinishRun ==
    /\ pc \in {"generate_done", "generate_failed"}
    /\ steps # <<>>
    /\ IF pc = "generate_done"
       THEN /\ Report(<<Ratio(100)>>)
            /\ audio_file' \in BOOLEAN
            /\ pc' = "pv_returned"
            /\ UNCHANGED error
       ELSE /\ PipelineFails(ass_error)
            /\ UNCHANGED <<reports, audio_file>>
    /\ UNCHANGED <<pipeArgs, taskVars, pending, steps, pipeInputs, pipeCues,
                   pipeTranslation, assCall, pipeUntouched>>

NextPipeline ==
    \/ ProcessVideo
    \/ ExtractAudio
    \/ SubmitTasks
    \/ TranscribeTask
    \/ DiarizeTask
    \/ TakeTranscription
    \/ TakeDiarization
    \/ LeaveExecutor
    \/ TranscribeDirect
    \/ MergeAndConsolidate
    \/ TranslateSegmentsCall
    \/ TranslateBatch
    \/ CallGenerateAss
    \/ GenerateAss
    \/ FinishRun

SpecPipeline == InitPipeline /\ [][NextPipeline]_vars

----------------------------------------------------------------------------
(* The merger as a state machine: each call is one action *)

\* a call find_best_speaker(trans_start, trans_end, diarization_segments)
InitFind ==
    /\ pc = "find"
    /\ \E iv \in Intervals : trans_start = iv[1] /\ trans_end = iv[2]
    /\ diarization_given = TRUE
    /\ diarization_segments \in SeqsUpTo(Turns, MaxTurns)
    /\ best_speaker = "" /\ runs = 0
    /\ MergeIdle /\ ConsIdle /\ OutsideMergerIdle

\* a call merge_segments(transcription_segments, diarization_segments)
InitMerge ==
    /\ pc = "merge"
    /\ \E ivs \in SeqsUpTo(Intervals, MaxTrans) :
         transcription_segments =
           [i \in 1..Len(ivs) |->
              [start |-> ivs[i][1], end |-> ivs[i][2], text |-> SegText(i)]]
    /\ diarization_given \in BOOLEAN
    /\ diarization_segments \in
         IF diarization_given THEN SeqsUpTo(Turns, MaxMergeTurns) ELSE {<<>>}
    /\ merged = <<>> /\ overlap_ops = 0
    /\ FindIdle /\ ConsIdle /\ OutsideMergerIdle

\* a call consolidate_segments(segments, max_gap, max_duration)
InitConsolidate ==
    /\ pc = "consolidate"
    /\ \E cs \in SeqsUpTo(Intervals \X Speakers, MaxCues) :
         /\ heap = [i \in 1..Len(cs) |->
                      [start |-> cs[i][1][1], end |-> cs[i][1][2],
                       text |-> SegText(i), speaker |-> cs[i][2]]]
         /\ segments = [i \in 1..Len(cs) |-> i]
    /\ input_cues = heap
    /\ \E a \in ConsolidateArgs : max_gap = a[1] /\ max_duration = a[2]
    /\ consolidated = <<>>
    /\ FindIdle /\ MergeIdle /\ DiarIdle /\ OutsideMergerIdle

FindBestSpeaker ==
    /\ pc \in {"find", "find_done"}
    /\ runs < MaxRuns
    /\ best_speaker' = find_best_speaker(trans_start, trans_end, diarization_segments)
    /\ runs' = runs + 1
    /\ pc' = "find_done"
    /\ UNCHANGED <<trans_start, trans_end, mergeVars, diarVars, consVars, outsideMerger>>

MergeSegments ==
    /\ pc = "merge"
    /\ merged' = merge_segments(transcription_segments, diarization_given,
                                diarization_segments)
    /\ overlap_ops' = merge_overlap_ops(transcription_segments, diarization_given,
                                        diarization_segments)
    /\ pc' = "merge_done"
    /\ UNCHANGED <<findVars, transcription_segments, diarVars, consVars, outsideMerger>>

ConsolidateSegments ==
    /\ pc = "consolidate"
    /\ LET r == consolidate_segments(heap, segments, max_gap, max_duration)
       IN  heap' = r.heap /\ consolidated' = r.result
    /\ pc' = "consolidate_done"
    /\ UNCHANGED <<findVars, mergeVars, diarVars, segments, input_cues,
                   max_gap, max_duration, outsideMerger>>

\* the caller changes every returned cue in place: it appends to the text and
\* moves the end
CallerMutatesCues ==
    /\ pc = "consolidate_done"
    /\ heap' = [i \in 1..Len(heap) |->
                  IF \E k \in 1..Len(consolidated) : consolidated[k] = i
                  THEN [heap[i] EXCEPT !.text = @ \o <<"+">>, !.end = @ + 1]
                  ELSE heap[i]]
    /\ pc' = "consolidate_mutated"
    /\ UNCHANGED <<findVars, mergeVars, diarVars, segments, input_cues,
                   max_gap, max_duration, consolidated, outsideMerger>>

InitMerger == InitFind \/ InitMerge \/ InitConsolidate
NextMerger ==
    \/ FindBestSpeaker
    \/ MergeSegments
    \/ ConsolidateSegments
    \/ CallerMutatesCues

SpecMerger == InitMerger /\ [][NextMerger]_vars

----------------------------------------------------------------------------
(* Properties of the merger *)

Range(f) == {f[i] : i \in DOMAIN f}

\* the overlap duration as the specification writes it
SpecOverlap(ts, te, turn) ==
    LET lo == IF ts >= turn.start THEN ts ELSE turn.start
        hi == IF te <= turn.end THEN te ELSE turn.end
    IN  IF hi - lo > 0 THEN hi - lo ELSE 0

\* label is the speaker of a turn of greatest, positive overlap with [ts, te],
\* or "UNKNOWN" when no turn overlaps it
BestLabel(ts, te, ds, label) ==
    IF \E k \in 1..Len(ds) : SpecOverlap(ts, te, ds[k]) > 0
    THEN \E k \in 1..Len(ds) :
            /\ ds[k].speaker = label
            /\ SpecOverlap(ts, te, ds[k]) > 0
            /\ \A j \in 1..Len(ds) :
                   SpecOverlap(ts, te, ds[j]) <= SpecOverlap(ts, te, ds[k])
    ELSE label = "UNKNOWN"

\* C1: with a non-empty turn list, find_best_speaker (and merge_segments, per
\* segment) returns the speaker of a turn whose overlap is positive and the
\* greatest of all turns, and "UNKNOWN" when no turn has positive overlap.
C1_BestOverlap ==
    /\ (pc = "find_done" /\ diarization_segments # <<>>)
         => BestLabel(trans_start, trans_end, diarization_segments, best_speaker)
    /\ (pc = "merge_done" /\ diarization_given /\ diarization_segments # <<>>)
         => /\ Len(merged) = Len(transcription_segments)
            /\ \A i \in 1..Len(merged) :
                 BestLabel(transcription_segments[i].start,
                           transcription_segments[i].end,
                           diarization_segments, merged[i].speaker)

\* two turns of different speakers overlap the interval, the later-listed one
\* by more, and its speaker is returned
C1_Witness ==
    /\ pc = "find_done"
    /\ Len(diarization_segments) >= 2
    /\ diarization_segments[1].speaker # diarization_segments[2].speaker
    /\ SpecOverlap(trans_start, trans_end, diarization_segments[1]) > 0
    /\ SpecOverlap(trans_start, trans_end, diarization_segments[2])
         > SpecOverlap(trans_start, trans_end, diarization_segments[1])
    /\ best_speaker = diarization_segments[2].speaker

\* the turns of greatest overlap with [ts, te]
MaxOverlapTurns(ts, te, ds) ==
    {k \in 1..Len(ds) :
        \A j \in 1..Len(ds) :
            SpecOverlap(ts, te, ds[j]) <= SpecOverlap(ts, te, ds[k])}

MinOf(S) == CHOOSE x \in S : \A y \in S : x <= y

\* C2: when two or more turns share the greatest positive overlap, the speaker
\* of the one listed first is returned, whatever the order of the list, and
\* again on every repeated call with the same arguments.
C2_TieFirst ==
    pc = "find_done" =>
        LET tied == MaxOverlapTurns(trans_start, trans_end, diarization_segments)
        IN  (/\ Cardinality(tied) >= 2
             /\ \A k \in tied :
                  SpecOverlap(trans_start, trans_end, diarization_segments[k]) > 0)
            => best_speaker = diarization_segments[MinOf(tied)].speaker

\* a tie between two speakers, the first-listed turn starting later than the
\* second, on a repeated call
C2_Witness ==
    /\ pc = "find_done"
    /\ runs >= 2
    /\ Len(diarization_segments) >= 2
    /\ diarization_segments[1].speaker # diarization_segments[2].speaker
    /\ diarization_segments[1].start > diarization_segments[2].start
    /\ SpecOverlap(trans_start, trans_end, diarization_segments[1]) > 0
    /\ SpecOverlap(trans_start, trans_end, diarization_segments[1])
         = SpecOverlap(trans_start, trans_end, diarization_segments[2])
    /\ best_speaker = diarization_segments[1].speaker

\* C3: with the turn list None or empty, merge_segments labels every interval
\* "SPEAKER_00" (never "UNKNOWN") and computes no overlap.
C3_DefaultSpeaker ==
    (pc = "merge_done" /\ (~diarization_given \/ diarization_segments = <<>>))
      => /\ Len(merged) = Len(transcription_segments)
         /\ \A i \in 1..Len(merged) : merged[i].speaker = "SPEAKER_00"
         /\ overlap_ops = 0

\* an empty (not None) turn list and two intervals
C3_Witness ==
    /\ pc = "merge_done"
    /\ diarization_given /\ diarization_segments = <<>>
    /\ Len(merged) = 2
    /\ merged[2].speaker = "SPEAKER_00"

ScanAfter(k) == ConsolidateScan(input_cues, segments, k, max_gap, max_duration)

\* the three merge conditions, as the specification writes them
SpecCanMerge(acc, next) ==
    /\ next.speaker = acc.speaker
    /\ next.start - acc.end <= max_gap
    /\ next.end - acc.start <= max_duration

\* C5: in the scan, the next cue is merged into the accumulator iff it has the
\* accumulator's speaker, starts at most max_gap after its end and ends at most
\* max_duration after its start; otherwise the accumulator is emitted and a new
\* one starts from that cue; the last accumulator is emitted at the end.
C5_MergeRule ==
    pc = "consolidate_done" =>
        /\ \A k \in 2..Len(segments) :
             LET before == ScanAfter(k - 1)
                 after == ScanAfter(k)
                 acc == before.heap[before.current]
                 next == before.heap[segments[k]]
             IN  /\ before.current # None
                 /\ SpecCanMerge(acc, next) =>
                      /\ after.consolidated = before.consolidated
                      /\ after.current = before.current
                      /\ after.heap[after.current].end = next.end
                 /\ ~SpecCanMerge(acc, next) =>
                      /\ after.consolidated =
                           Append(before.consolidated, before.current)
                      /\ after.current # before.current
                      /\ after.heap[after.current] = next
                      /\ after.heap[before.current] = acc
        /\ Len(segments) > 0 =>
             /\ ScanAfter(Len(segments)).current # None
             /\ consolidated = Append(ScanAfter(Len(segments)).consolidated,
                                      ScanAfter(Len(segments)).current)
             /\ heap = ScanAfter(Len(segments)).heap

\* a cue merged with both bounds met exactly, and a cue that is not merged
C5_Witness ==
    /\ pc = "consolidate_done"
    /\ Len(segments) = 3
    /\ \E k \in 2..3 :
         LET acc == ScanAfter(k - 1).heap[ScanAfter(k - 1).current]
         IN  /\ input_cues[k].speaker = acc.speaker
             /\ input_cues[k].start - acc.end = max_gap
             /\ input_cues[k].end - acc.start = max_duration
             /\ ScanAfter(k).consolidated = ScanAfter(k - 1).consolidated
    /\ Len(consolidated) = 2

\* the k-th smallest element of a set of numbers
Nth(S, k) == CHOOSE x \in S : Cardinality({y \in S : y <= x}) = k

\* the texts of cues first..last joined by single spaces
RECURSIVE JoinTexts(_, _, _)
JoinTexts(cues, first, last) ==
    IF first = last THEN cues[first].text
    ELSE JoinTexts(cues, first, last - 1) \o <<" ">> \o cues[last].text

\* C6: the output partitions the input into consecutive runs: an output cue
\* starts where its run's first cue starts, ends where its run's last cue ends
\* and carries the run's texts joined by one space each.
C6_Runs ==
    pc = "consolidate_done" =>
        LET n == Len(segments)
            m == Len(consolidated)
        IN  IF n = 0 THEN m = 0
            ELSE \E firsts \in SUBSET (1..n) :
                   /\ 1 \in firsts
                   /\ Cardinality(firsts) = m
                   /\ \A k \in 1..m :
                        LET first == Nth(firsts, k)
                            last == IF k = m THEN n ELSE Nth(firsts, k + 1) - 1
                            out == heap[consolidated[k]]
                        IN  /\ out.start = input_cues[first].start
                            /\ out.end = input_cues[last].end
                            /\ out.speaker = input_cues[first].speaker
                            /\ out.text = JoinTexts(input_cues, first, last)

\* three cues in one run, the first ending later than the last
C6_Witness ==
    /\ pc = "consolidate_done"
    /\ Len(segments) = 3
    /\ Len(consolidated) = 1
    /\ input_cues[1].end > input_cues[3].end
    /\ heap[consolidated[1]].end = input_cues[3].end
    /\ heap[consolidated[1]].text = <<"a", " ", "b", " ", "c">>

\* C7: an empty input gives an empty output, a single cue gives one equal cue,
\* and every returned cue is a new object: the input list and the input cues
\* stay as they were, also after the caller changes the returned cues.
C7_Fresh ==
    pc \in {"consolidate_done", "consolidate_mutated"} =>
        /\ Len(segments) = 0 => consolidated = <<>>
        /\ Len(segments) = 1 =>
             /\ Len(consolidated) = 1
             /\ pc = "consolidate_done" => heap[consolidated[1]] = input_cues[1]
        /\ \A k \in 1..Len(consolidated) : consolidated[k] \notin Range(segments)
        /\ \A j, k \in 1..Len(consolidated) :
             j # k => consolidated[j] # consolidated[k]
        /\ segments = [i \in 1..Len(input_cues) |-> i]
        /\ \A i \in 1..Len(segments) : heap[segments[i]] = input_cues[i]

\* cues were merged, and the caller then changed the returned cues
C7_Witness ==
    /\ pc = "consolidate_mutated"
    /\ Len(segments) = 3
    /\ Len(consolidated) = 2
    /\ \E k \in 1..2 : Len(heap[consolidated[k]].text) > 2

SortedByStart(cues) ==
    \A i, j \in 1..Len(cues) : i <= j => cues[i].start <= cues[j].start

\* the words of a text, without the joining spaces
RECURSIVE WordsOf(_)
WordsOf(text) ==
    IF text = <<>> THEN <<>>
    ELSE IF Head(text) = " " THEN WordsOf(Tail(text))
    ELSE <<Head(text)>> \o WordsOf(Tail(text))

RECURSIVE WordsOfCues(_, _)
WordsOfCues(cues, k) ==
    IF k = 0 THEN <<>> ELSE WordsOfCues(cues, k - 1) \o WordsOf(cues[k].text)

\* C8: neither step reorders cues: the texts come out in input order, and
\* input cues with non-decreasing starts give output cues with
\* non-decreasing starts.
C8_OrderKept ==
    /\ pc = "merge_done" =>
         /\ WordsOfCues(merged, Len(merged))
              = WordsOfCues(transcription_segments, Len(transcription_segments))
         /\ SortedByStart(transcription_segments) => SortedByStart(merged)
    /\ pc = "consolidate_done" =>
         LET out == [k \in 1..Len(consolidated) |-> heap[consolidated[k]]]
         IN  /\ WordsOfCues(out, Len(out)) = WordsOfCues(input_cues, Len(input_cues))
             /\ SortedByStart(input_cues) => SortedByStart(out)

\* three cues of increasing start, consolidated into two or more
C8_Witness ==
    /\ pc = "consolidate_done"
    /\ Len(segments) = 3
    /\ input_cues[1].start < input_cues[2].start
    /\ input_cues[2].start < input_cues[3].start
    /\ Len(consolidated) >= 2
    /\ heap[consolidated[1]].start < heap[consolidated[2]].start

SortedByEnd(cues) ==
    \A i, j \in 1..Len(cues) : i <= j => cues[i].end <= cues[j].end

\* C28: for input cues with non-decreasing starts and non-decreasing ends,
\* consolidating the output of consolidate_segments again, with the same
\* max_gap and max_duration, returns a list of cues equal to that output.
C28_Idempotent ==
    (pc = "consolidate_done" /\ SortedByStart(input_cues) /\ SortedByEnd(input_cues)) =>
        LET again == consolidate_segments(heap, consolidated, max_gap, max_duration)
        IN  [k \in 1..Len(again.result) |-> again.heap[again.result[k]]]
              = [k \in 1..Len(consolidated) |-> heap[consolidated[k]]]

\* three cues in time order made into two: the third did not fit the first two
C28_Witness ==
    /\ pc = "consolidate_done"
    /\ SortedByStart(input_cues) /\ SortedByEnd(input_cues)
    /\ Len(segments) = 3
    /\ Len(consolidated) = 2
    /\ Len(heap[consolidated[1]].text) = 3
    /\ heap[consolidated[2]].speaker = heap[consolidated[1]].speaker
    /\ Len(consolidate_segments(heap, consolidated, max_gap, max_duration).result) = 2

\* the input cues an output cue was built from, found by their words
SourcesOf(k) ==
    {i \in 1..Len(input_cues) :
        \E j \in 1..Len(heap[consolidated[k]].text) :
            heap[consolidated[k]].text[j] = input_cues[i].text[1]}

\* C29: an output cue of consolidate_segments built from two or more input
\* cues is at most max_duration long, its source cues all carry its speaker,
\* and each source cue after the first starts at most max_gap after the end of
\* the source cue before it; an output cue longer than max_duration is a
\* single input cue, unchanged.
C29_Limits ==
    pc = "consolidate_done" =>
        \A k \in 1..Len(consolidated) :
            LET out == heap[consolidated[k]]
                src == SourcesOf(k)
            IN  /\ src # {}
                /\ Cardinality(src) >= 2 =>
                     /\ out.end - out.start <= max_duration
                     /\ \A i \in src : input_cues[i].speaker = out.speaker
                     /\ \A i \in src : i - 1 \in src =>
                          input_cues[i].start - input_cues[i - 1].end <= max_gap
                /\ out.end - out.start > max_duration =>
                     /\ Cardinality(src) = 1
                     /\ \A i \in src : out = input_cues[i]

\* a merged cue exactly max_duration long next to a longer cue left alone
C29_Witness ==
    /\ pc = "consolidate_done"
    /\ Len(consolidated) = 2
    /\ \E k \in 1..2 :
         /\ Cardinality(SourcesOf(k)) = 2
         /\ heap[consolidated[k]].end - heap[consolidated[k]].start = max_duration
    /\ \E k \in 1..2 :
         /\ Cardinality(SourcesOf(k)) = 1
         /\ heap[consolidated[k]].end - heap[consolidated[k]].start > max_duration

----------------------------------------------------------------------------
(* Properties of the translator *)

\* the texts the numbered-line grammar allows line to give for index n: the
\* trimmed line is a run of digits of value n, then one or more of '.', ':' or
\* whitespace, then a non-empty text; the text, trimmed
NumberedTexts(line, n) ==
    LET l == Strip(line)
    IN  {Strip(SubSeq(l, c + 1, Len(l))) :
           c \in {c \in 2..(Len(l) - 1) :
                    \E b \in 1..(c - 1) :
                      /\ \A k \in 1..b : l[k] \in Digits
                      /\ IntOf(SubSeq(l, 1, b)) = n
                      /\ \A k \in (b + 1)..c : l[k] \in {".", ":", " ", NL}}}

\* value is what the grammar gives position n of a response: the text of a
\* line numbered n, or the empty string when no line is numbered n
ParsedFor(resp, n, value) ==
    LET texts == UNION {NumberedTexts(SplitLines(resp)[k], n) :
                          k \in 1..Len(SplitLines(resp))}
    IN  IF texts = {} THEN value = <<>> ELSE value \in texts

\* C9: for a non-empty cue list and batch_size > 0, the prompts sent carry
\* consecutive slices of at most batch_size texts in order (only the last may be
\* shorter); on success the result has one cue per input cue, in order, equal
\* to it plus the translation parsed for its 1-based position in its batch;
\* the input cues are not modified.
C9_Batches ==
    (pc = "translate_done" /\ Len(segments) > 0) =>
        LET n == Len(segments)
            batches == (n + batch_size - 1) \div batch_size
            SizeOf(k) == Min(batch_size, n - (k - 1) * batch_size)
        IN  /\ batch_size > 0
            /\ Len(sent) = batches
            /\ Len(responses) = batches
            /\ \A k \in 1..batches :
                 /\ SizeOf(k) >= 1
                 /\ k < batches => SizeOf(k) = batch_size
                 /\ Len(SplitLines(sent[k])) = SizeOf(k)
                 /\ \A j \in 1..SizeOf(k) :
                      SplitLines(sent[k])[j] =
                        IntToChars(j) \o <<".", " ">>
                          \o input_cues[(k - 1) * batch_size + j].text
            /\ Len(result) = n
            /\ \A x \in 1..n :
                 LET k == ((x - 1) \div batch_size) + 1
                     pos == ((x - 1) % batch_size) + 1
                     out == heap[result[x]]
                 IN  /\ DOMAIN out = DOMAIN input_cues[x] \cup {"translation"}
                     /\ \A f \in DOMAIN input_cues[x] : out[f] = input_cues[x][f]
                     /\ ParsedFor(responses[k], pos, out.translation)
            /\ segments = [x \in 1..Len(input_cues) |-> x]
            /\ \A x \in 1..n :
                 /\ heap[segments[x]] = input_cues[x]
                 /\ result[x] \notin Range(segments)

\* three cues in batches of two; the first response lists its lines in reverse
C9_Witness ==
    /\ pc = "translate_done"
    /\ Len(segments) = 3
    /\ batch_size = 2
    /\ Len(responses) = 2
    /\ responses[1][1] = "2"
    /\ Len(result) = 3
    /\ heap[result[1]].translation = <<"T", "a">>
    /\ heap[result[2]].translation = <<"T", "b">>
    /\ heap[result[3]].translation = <<"T", "c">>

\* C10: parse_numbered_response returns expected_count strings; position i is
\* the trimmed text of a response line numbered i in the numbered-line grammar,
\* and is empty when no line is numbered i; other lines are ignored.
C10_ParseResult ==
    pc = "parse_done" =>
        /\ Len(parsed) = expected_count
        /\ \A n \in 1..expected_count : ParsedFor(response, n, parsed[n])

\* a line that is not numbered, then a line numbered 2; no line numbered 1
C10_Witness ==
    /\ pc = "parse_done"
    /\ expected_count = 2
    /\ Len(SplitLines(response)) = 2
    /\ SplitLines(response)[1] = <<"a">>
    /\ parsed = << <<>>, <<"b">> >>

\* the errors the except clauses of translate_batch catch
CaughtErrors == {"RateLimitError"} \cup ApiErrors

\* C11: with max_retries >= 1, translate_batch calls the collaborator at most
\* max_retries times for a batch and terminates: the first response ends the
\* calls with the parsed translations, a rate-limit or API error is followed by
\* another attempt while attempts remain, and such an error on the
\* max_retries-th attempt ends in TranslationError naming that error.
C11_RetryState ==
    (pc \in {"attempt", "batch", "translate_done", "translate_failed"}
       /\ max_retries >= 1) =>
        /\ Len(outcomes) = calls
        /\ calls <= max_retries
        /\ \A k \in 1..(calls - 1) : outcomes[k] # "response"
        /\ pc = "attempt" => calls < max_retries
        /\ (calls > 0 /\ outcomes[calls] = "response") =>
              /\ pc \in {"batch", "translate_done"}
              /\ error = NoError
              /\ responses # <<>>
              /\ \A x \in 1..Len(result) :
                   (x - 1) \div batch_size = Len(responses) - 1 =>
                      heap[result[x]].translation =
                        parse_numbered_response(responses[Len(responses)],
                            Len(result) - (Len(responses) - 1) * batch_size)
                          [((x - 1) % batch_size) + 1]
        /\ (calls > 0 /\ outcomes[calls] \in CaughtErrors) =>
              IF calls < max_retries
              THEN pc = "attempt"
              ELSE /\ pc = "translate_failed"
                   /\ error.type = "TranslationError"
                   /\ error.detail = outcomes[calls]

\* every attempt leaves the retry loop or uses up one of the attempts
C11_RetryStep ==
    pc = "attempt" =>
        \/ pc' # "attempt"
        \/ attempt' = attempt + 1 /\ calls' = calls + 1 /\ attempt' < max_retries

C11_Retry ==
    /\ []C11_RetryState
    /\ [][C11_RetryStep]_vars
    /\ (pc = "attempt") ~> (pc # "attempt")

\* two attempts allowed, both fail, the second with a rate limit
C11_Witness ==
    /\ pc = "translate_failed"
    /\ max_retries = 2
    /\ outcomes = <<"APIConnectionError", "RateLimitError">>
    /\ error.type = "TranslationError"
    /\ error.detail = "RateLimitError"

\* the collaborator's errors that a retry cannot cure: the API refuses the key
FatalErrors == {"AuthenticationError"}

\* C12: a fatal error from the collaborator ends translate_batch on that
\* attempt: it is the last outcome of the batch, no wait follows it and the call
\* has failed, whatever the attempts that remain.
C12_FatalStops ==
    \A k \in 1..Len(outcomes) :
        outcomes[k] \in FatalErrors =>
            /\ k = Len(outcomes)
            /\ Len(waits) < k
            /\ pc = "translate_failed"

\* C24: in translate_batch the waits lie between attempts only: wait number k
\* (from 0) is retry_delay_base * 2^k, there is one wait for each failed attempt
\* that another attempt follows, and none after the attempt that ends the call.
C24_Backoff ==
    /\ \A k \in 1..Len(waits) : waits[k] = RetryDelayBase * (2 ^ (k - 1))
    /\ Len(waits) = IF pc = "attempt" THEN Len(outcomes)
                    ELSE IF outcomes = <<>> THEN 0
                    ELSE Len(outcomes) - 1

\* C25: with a progress callback, translate_segments calls it once after each
\* completed batch, before the next batch's first collaborator call, with
\* (cues translated so far, total): the counts increase strictly, stay within
\* total and end at total; a failed batch gives no callback and ends the call.
C25_ProgressState ==
    /\ ~progress_given => progress = <<>>
    /\ progress_given =>
         /\ Len(progress) = Len(responses)
         /\ Len(sent) <= Len(progress) + 1
         /\ \A k \in 1..Len(progress) :
              /\ progress[k][2] = Len(segments)
              /\ 1 <= progress[k][1] /\ progress[k][1] <= Len(segments)
              /\ k > 1 => progress[k - 1][1] < progress[k][1]
         /\ progress # <<>> => progress[Len(progress)][1] = Len(result)
         /\ (pc = "translate_done" /\ segments # <<>>) =>
              /\ progress # <<>>
              /\ progress[Len(progress)][1] = Len(segments)
C25_ProgressStep ==
    /\ pc # "translate_failed"
    /\ progress' # progress =>
         /\ Len(progress') = Len(progress) + 1
         /\ Len(responses') = Len(responses) + 1
         /\ Len(sent') = Len(responses')
    /\ pc' = "translate_failed" => progress' = progress
C25_Progress == []C25_ProgressState /\ [][C25_ProgressStep]_vars

\* three cues in batches of two, both batches done
C25_Witness ==
    /\ pc = "translate_done"
    /\ progress_given
    /\ batch_size = 2
    /\ progress = <<<<2, 3>>, <<3, 3>>>>
    /\ Len(sent) = 2

\* also reached: the second of three batches fails after the first reported
C25_FailedBatch ==
    /\ pc = "translate_failed"
    /\ progress_given
    /\ batch_size = 1
    /\ Len(segments) = 3
    /\ progress = <<<<1, 3>>>>
    /\ Len(sent) = 2

----------------------------------------------------------------------------
(* Properties of the time conversions *)

Abs(n) == IF n < 0 THEN -n ELSE n

\* C13: seconds_to_ass_time(t) is H:MM:SS.cc with H = floor(t / 3600) unpadded,
\* MM = floor((t mod 3600) / 60) in two digits, 00..59, and SS.cc the value
\* t mod 60 in two integer and two decimal digits, below 60.00; a negative t
\* gives "0:00:00.00".
C13_Format ==
    pc = "format_done" =>
        LET t == IF seconds < 0 THEN 0 ELSE seconds
            fields == SplitOn(time_str, ":")
            ss == fields[3]
            centis == IntOf(SubSeq(ss, 1, 2) \o SubSeq(ss, 4, 5))
        IN  /\ Len(fields) = 3
            /\ fields[1] = IntToChars(t \div (3600 * TicksPerSecond))
            /\ Len(fields[2]) = 2
            /\ AllDigits(fields[2])
            /\ IntOf(fields[2]) = (t % (3600 * TicksPerSecond)) \div (60 * TicksPerSecond)
            /\ IntOf(fields[2]) \in 0..59
            /\ Len(ss) = 5
            /\ ss[3] = "."
            /\ AllDigits(SubSeq(ss, 1, 2) \o SubSeq(ss, 4, 5))
            /\ Abs(centis * TicksPerSecond - 100 * (t % (60 * TicksPerSecond)))
                 < TicksPerSecond
            /\ centis < 6000
            /\ seconds < 0 =>
                 time_str = <<"0", ":", "0", "0", ":", "0", "0", ".", "0", "0">>

\* C14: for t >= 0, ass_time_to_seconds(seconds_to_ass_time(t)) is a value and
\* differs from t by at most 0.01 s.
C14_RoundTrip ==
    (pc = "roundtrip_done" /\ seconds >= 0) =>
        /\ time_result.error = ""
        /\ LET whole == seconds \div TicksPerSecond
               ticks == seconds % TicksPerSecond
               ms == time_result.value - whole * MsPerSecond
           IN  /\ Abs(ms) <= 2 * MsPerSecond
               /\ 100 * Abs(ms * TicksPerSecond - ticks * MsPerSecond)
                     <= TicksPerSecond * MsPerSecond

\* a time less than a centisecond below the minute
C14_Witness ==
    /\ pc = "roundtrip_done"
    /\ seconds = 60 * TicksPerSecond - 1
    /\ time_str = <<"0", ":", "0", "0", ":", "6", "0", ".", "0", "0">>
    /\ time_result = [error |-> "", value |-> 60 * MsPerSecond]

\* the timestamp grammar H:MM:SS.cc
IsTimestamp(str) ==
    LET fields == SplitOn(str, ":")
    IN  /\ Len(fields) = 3
        /\ fields[1] # <<>> /\ AllDigits(fields[1])
        /\ Len(fields[2]) = 2 /\ AllDigits(fields[2])
        /\ Len(fields[3]) = 5 /\ fields[3][3] = "."
        /\ AllDigits(SubSeq(fields[3], 1, 2) \o SubSeq(fields[3], 4, 5))

\* C15 as stated: ass_time_to_seconds returns a value for the strings of the
\* grammar H:MM:SS.cc and fails with ValueError for every other string.
C15_ExactGrammar ==
    pc \in {"to_seconds_done", "to_seconds_failed"} =>
        (time_result.error = "ValueError" <=> ~IsTimestamp(time_str))

\* field is whitespace, an optional sign and a number, whitespace; the number
\* is one or more digits, with a decimal point somewhere if `point`
IsNumber(field, point) ==
    \E i \in 1..Len(field) : \E j \in i..Len(field) :
        /\ \A k \in (1..(i - 1)) \cup ((j + 1)..Len(field)) : field[k] \in Whitespace
        /\ \E d \in i..j : field[d] \in Digits
        /\ \A k \in i..j :
             \/ field[k] \in Digits
             \/ k = i /\ field[k] \in Signs
             \/ point /\ field[k] = "." /\ \A h \in i..j : field[h] = "." => h = k

\* C15, amended: ass_time_to_seconds fails with ValueError exactly when the
\* string has a number of colon-separated fields other than three, or its
\* first or second field is not an integer, or its third is not a decimal
\* number; otherwise it returns H*3600 + MM*60 + SS.
C15_Fields ==
    pc \in {"to_seconds_done", "to_seconds_failed"} =>
        LET fields == SplitOn(time_str, ":")
            numeric == /\ Len(fields) = 3
                       /\ IsNumber(fields[1], FALSE)
                       /\ IsNumber(fields[2], FALSE)
                       /\ IsNumber(fields[3], FALSE) \/ IsNumber(fields[3], TRUE)
        IN  /\ time_result.error = (IF numeric THEN "" ELSE "ValueError")
            /\ pc = (IF numeric THEN "to_seconds_done" ELSE "to_seconds_failed")
            /\ numeric =>
                 time_result.value =
                     IntValue(fields[1]) * 3600 * MsPerSecond
                       + IntValue(fields[2]) * 60 * MsPerSecond
                       + FloatValue(fields[3])

\* three numeric fields that are not of the shape H:MM:SS.cc
C15_Witness ==
    /\ pc = "to_seconds_done"
    /\ time_str = <<"1", ":", "2", ":", "3">>
    /\ time_result = [error |-> "", value |-> 3723 * MsPerSecond]

----------------------------------------------------------------------------
(* Properties of the subtitle generator *)

\* the escape of one character
EscapeChar(c) ==
    IF c = NL THEN <<BS, "N">>
    ELSE IF c = "{" THEN <<BS, "{">>
    ELSE IF c = "}" THEN <<BS, "}">>
    ELSE <<c>>

\* every character of text replaced by its escape, in place
RECURSIVE EscapeEach(_)
EscapeEach(text) ==
    IF text = <<>> THEN <<>> ELSE EscapeChar(Head(text)) \o EscapeEach(Tail(text))

\* C16: escape_ass_text replaces each newline by \N, each { by \{ and each } by
\* \}, and leaves every other character, a backslash included, as it is and
\* where it is; the result has no newline and no brace without a backslash
\* before it.
C16_Escape ==
    pc = "escape_done" =>
        /\ escaped = EscapeEach(ass_text)
        /\ \A k \in 1..Len(escaped) :
             /\ escaped[k] # NL
             /\ escaped[k] \in {"{", "}"} => k > 1 /\ escaped[k - 1] = BS

\* a text with a backslash of its own before a brace
C16_Witness ==
    /\ pc = "escape_done"
    /\ ass_text = <<BS, "{", NL, "}">>
    /\ escaped = <<BS, BS, "{", BS, "N", BS, "}">>

\* the lines of a written file that begin with the token `first`
RECURSIVE LinesWith(_, _)
LinesWith(lines, first) ==
    IF lines = <<>> THEN <<>>
    ELSE (IF Head(lines) # <<>> /\ Head(Head(lines)) = first
          THEN <<Head(lines)>> ELSE <<>>)
           \o LinesWith(Tail(lines), first)

DialogueLines == LinesWith(SplitOn(out_file.content, NL), "Dialogue: 0,")
StyleLines == LinesWith(SplitOn(out_file.content, NL), "Style: ")

\* where the text field of a Dialogue line begins
TextStart(line) == 1 + CHOOSE k \in 1..Len(line) : line[k] = ",,0,0,0,,"
RenderedText(line) == SubSeq(line, TextStart(line), Len(line))
StyleOf(line) == line[TextStart(line) - 2]

\* C17: the text of a cue's Dialogue line is escape(original) alone when
\* translation is disabled or the cue's translation is empty or missing, and
\* otherwise escape(original), \N, escape(translation).
C17_Rendered ==
    pc = "generate_done" =>
        /\ Len(DialogueLines) = Len(ass_segments)
        /\ \A k \in 1..Len(ass_segments) :
             LET ja == Get(ass_segments[k], "text", <<>>)
                 zh == Get(ass_segments[k], "translation", <<>>)
             IN  RenderedText(DialogueLines[k]) =
                   IF ~include_translation \/ zh = <<>>
                   THEN EscapeEach(ja)
                   ELSE EscapeEach(ja) \o <<BS, "N">> \o EscapeEach(zh)

\* a cue whose text has braces and whose translation has a newline
C17_Witness ==
    /\ pc = "generate_done"
    /\ include_translation
    /\ Len(ass_segments) = 2
    /\ Get(ass_segments[1], "text", <<>>) = <<"{", "a", "}">>
    /\ Get(ass_segments[1], "translation", <<>>) = <<"b", NL, "c">>
    /\ "translation" \notin DOMAIN ass_segments[2]
    /\ RenderedText(DialogueLines[1])
         = <<BS, "{", "a", BS, "}", BS, "N", "b", BS, "N", "c">>
    /\ RenderedText(DialogueLines[2]) = <<"a", BS, "N">>

\* C18: a Dialogue line with an empty text is written only when translation is
\* disabled.
C18_NoEmptyText ==
    pc = "generate_done" =>
        \A k \in 1..Len(DialogueLines) :
            RenderedText(DialogueLines[k]) = <<>> => ~include_translation

\* the labels of the cues, a cue without a label counting as "UNKNOWN"
CueLabels == {Get(ass_segments[k], "speaker", "UNKNOWN") : k \in 1..Len(ass_segments)}
RankOf(label) == CHOOSE k \in 1..Len(LabelOrder) : LabelOrder[k] = label

\* C19: the style table has one record per distinct label of the cues, in
\* ascending order of label, with the label's color or gray for a label
\* without one, and then a record for "UNKNOWN" when no cue has that label;
\* every label, "UNKNOWN" and every Dialogue line's style has exactly one record.
C19_Styles ==
    pc = "generate_done" =>
        LET n == Cardinality(CueLabels)
            names == [k \in 1..Len(StyleLines) |-> StyleLines[k][2]]
        IN  /\ Len(StyleLines) = n + (IF "UNKNOWN" \in CueLabels THEN 0 ELSE 1)
            /\ \A k \in 1..n : names[k] \in CueLabels
            /\ \A i \in 1..n : \A j \in (i + 1)..n :
                 RankOf(names[i]) < RankOf(names[j])
            /\ "UNKNOWN" \notin CueLabels => names[n + 1] = "UNKNOWN"
            /\ \A k \in 1..Len(StyleLines) :
                 StyleLines[k] =
                   DEFAULT_STYLE_TEMPLATE(names[k],
                       IF names[k] \in DOMAIN SPEAKER_COLORS
                       THEN SPEAKER_COLORS[names[k]] ELSE "&H00C0C0C0")
            /\ \A l \in CueLabels \cup {"UNKNOWN"} :
                 Cardinality({k \in 1..Len(names) : names[k] = l}) = 1
            /\ \A k \in 1..Len(DialogueLines) :
                 Cardinality({j \in 1..Len(names) :
                                names[j] = StyleOf(DialogueLines[k])}) = 1

\* a label without a color that sorts after "UNKNOWN", no cue labelled "UNKNOWN"
C19_Witness ==
    /\ pc = "generate_done"
    /\ CueLabels = {"alice", "SPEAKER_00"}
    /\ Len(StyleLines) = 3
    /\ StyleLines[1][2] = "SPEAKER_00" /\ StyleLines[1][4] = "&H00FFFFFF"
    /\ StyleLines[2][2] = "alice" /\ StyleLines[2][4] = "&H00C0C0C0"
    /\ StyleLines[3][2] = "UNKNOWN" /\ StyleLines[3][4] = "&H00C0C0C0"

\* C20: generate_ass with an empty cue list fails with ValueError and does
\* nothing to the file system: no directory or file is created, and an
\* existing file keeps its content.
C20_EmptyInput ==
    /\ [](pc = "generate_failed" =>
            ass_segments = <<>> /\ ass_error = "ValueError" /\ fs_ops = <<>>)
    /\ [][(pc = "generate" /\ ass_segments = <<>>) =>
            /\ pc' = "generate_failed"
            /\ dir_exists' = dir_exists
            /\ out_file' = out_file]_vars

\* the empty list, with a file already at the path
C20_Witness ==
    /\ pc = "generate_failed"
    /\ ass_segments = <<>>
    /\ ass_error = "ValueError"
    /\ out_file = OldFile
    /\ fs_ops = <<>>

\* the lines of the fixed header before the style table, and those after it
HeaderLines ==
    <<<<"[Script Info]">>, <<"Title: Generated Subtitles">>,
      <<"ScriptType: v4.00+">>, <<"PlayResX: 1920">>, <<"PlayResY: 1080">>,
      <<"WrapStyle: 0">>, <<>>, <<"[V4+ Styles]">>,
      <<"Format: Name, Fontname, Fontsize, PrimaryColour, SecondaryColour, OutlineColour, BackColour, Bold, Italic, Underline, StrikeOut, ScaleX, ScaleY, Spacing, Angle, BorderStyle, Outline, Shadow, Alignment, MarginL, MarginR, MarginV, Encoding">>>>
EventLines ==
    <<<<>>, <<"[Events]">>,
      <<"Format: Layer, Start, End, Style, Name, MarginL, MarginR, MarginV, Effect, Text">>>>

\* C21: the file generate_ass writes for a non-empty cue list is the fixed
\* header, the style table, the event column header and one Dialogue line per
\* cue in the order of the list, the i-th line made of the i-th cue's times,
\* label and text; nothing of a file that was there before remains.
C21_Layout ==
    pc = "generate_done" =>
        LET lines == SplitOn(out_file.content, NL)
            h == Len(HeaderLines)
            st == Len(StyleLines)
            n == Len(ass_segments)
        IN  /\ out_file.exists
            /\ Len(lines) = h + st + Len(EventLines) + n + 1
            /\ SubSeq(lines, 1, h) = HeaderLines
            /\ SubSeq(lines, h + 1, h + st) = StyleLines
            /\ SubSeq(lines, h + st + 1, h + st + 3) = EventLines
            /\ lines[Len(lines)] = <<>>
            /\ \A i \in 1..n :
                 LET cue == ass_segments[i]
                     line == lines[h + st + 3 + i]
                 IN  /\ Head(line) = "Dialogue: 0,"
                     /\ SubSeq(line, 2, TextStart(line) - 1)
                          = seconds_to_ass_time(cue.start) \o <<",">>
                              \o seconds_to_ass_time(cue.end)
                              \o <<",", Get(cue, "speaker", "UNKNOWN"), ",,0,0,0,,">>
                     /\ RenderedText(line) =
                          LET ja == EscapeEach(Get(cue, "text", <<>>))
                              zh == Get(cue, "translation", <<>>)
                          IN  IF include_translation /\ zh # <<>>
                              THEN ja \o <<BS, "N">> \o EscapeEach(zh)
                              ELSE ja
            /\ Len(DialogueLines) = n
            /\ fs_ops = <<"mkdir", "open", "write">>

\* two cues given later one first
C21_Witness ==
    /\ pc = "generate_done"
    /\ Len(ass_segments) = 2
    /\ ass_segments[1].start > ass_segments[2].start
    /\ Get(ass_segments[1], "speaker", "UNKNOWN") = "SPEAKER_01"
    /\ Get(ass_segments[2], "speaker", "UNKNOWN") = "SPEAKER_00"
    /\ StyleOf(DialogueLines[1]) = "SPEAKER_01"
    /\ StyleOf(DialogueLines[2]) = "SPEAKER_00"

----------------------------------------------------------------------------
(* Properties of the pipeline *)

Last(seq) == seq[Len(seq)]
Terminal == {"pv_failed", "pv_returned"}
Downstream == {"merge_segments", "consolidate_segments", "translate_segments",
               "translate_batch", "generate_ass"}

\* the exceptions the step that failed can have raised
OriginalErrors ==
    IF rec_task.state = "failed" THEN {rec_task.exception}
    ELSE IF diar_task.state = "failed" THEN {diar_task.exception}
    ELSE IF Last(steps) = "extract_audio" THEN ExtractErrors
    ELSE IF Last(steps) = "transcribe" THEN TranscribeErrors
    ELSE IF Last(steps) = "translate_segments" THEN {"ValueError"}
    ELSE IF Last(steps) = "translate_batch" THEN TranslateErrors
    ELSE IF Last(steps) = "generate_ass" THEN {ass_error}
    ELSE {}

\* C22: when a step of process_video fails (audio extraction, recognition,
\* diarization, translation, writing the file, the empty cue list included),
\* the caller gets one PipelineError whose cause is the step's exception; no
\* other type of exception leaves process_video once a step has run.
C22_WrappedState ==
    /\ pc = "pv_failed" =>
         IF steps = <<>>
         THEN ~video_exists /\ error.type = "FileNotFoundError"
         ELSE /\ error.type = "PipelineError"
              /\ error.cause \in OriginalErrors
              /\ error.cause # ""
    /\ pc # "pv_failed" => error = NoError
    /\ (rec_task.state = "failed" \/ diar_task.state = "failed") =>
         pc \in {"pv_take_transcription", "pv_take_diarization",
                 "pv_leave_executor", "pv_failed"}
    /\ ass_error # "" => pc \in {"generate_failed", "pv_failed"}
C22_WrappedStep ==
    /\ pc \notin Terminal
    /\ error' # error => error = NoError /\ pc' = "pv_failed"
C22_Wrapped == []C22_WrappedState /\ [][C22_WrappedStep]_vars

\* no speech was found: generate_ass refuses the empty list
C22_Witness ==
    /\ pc = "pv_failed"
    /\ steps # <<>>
    /\ Last(steps) = "generate_ass"
    /\ consolidated = <<>>
    /\ ass_error = "ValueError"
    /\ error = [type |-> "PipelineError", cause |-> "ValueError",
                detail |-> "ValueError"]

\* C23: the output file is opened only after audio extraction, recognition,
\* diarization when enabled, merging, consolidation and the translation of
\* every batch have succeeded; a run that fails leaves the file as it was.
C23_FileLastState ==
    /\ fs_ops # <<>> =>
         /\ audio_file \/ pc = "pv_returned"
         /\ transcription_segments # <<>>
         /\ enable_diarization =>
              rec_task.state = "done" /\ diar_task.state = "done"
         /\ \A st \in {"extract_audio", "transcribe"} \cup Downstream :
              (st = "translate_batch" \/ \E k \in 1..Len(steps) : steps[k] = st)
         /\ consolidated # <<>>
         /\ Len(result) = Len(consolidated)
         /\ Len(progress) * batch_size >= Len(consolidated)
         /\ error = NoError
    /\ pc = "pv_failed" => fs_ops = <<>>
C23_FileLastStep ==
    (out_file' # out_file \/ fs_ops' # fs_ops \/ dir_exists' # dir_exists) =>
        /\ pc = "generate"
        /\ Last(steps) = "generate_ass"
        /\ ass_segments = AssCues(heap, result)
C23_FileLast == []C23_FileLastState /\ [][C23_FileLastStep]_vars

\* a run with diarization and two batches that wrote the file
C23_Witness ==
    /\ pc = "pv_returned"
    /\ enable_diarization
    /\ batch_size = 1
    /\ Len(progress) = 2
    /\ out_file.exists
    /\ Len(DialogueLines) = 2
    /\ fs_ops = <<"mkdir", "open", "write">>

\* also reached: the second batch fails and the old file is as it was
C23_FailedRun ==
    /\ pc = "pv_failed"
    /\ Len(result) = 1
    /\ Len(consolidated) = 2
    /\ out_file = OldFile
    /\ error.cause = "TranslationError"

\* C26: with diarization enabled merge_segments runs only after the
\* recognition task and the diarization task have both succeeded; when either
\* has failed, nothing from the merge on runs and the call does not return,
\* whatever the other task gave.  Without diarization diarize is not called.
C26_Join ==
    /\ enable_diarization =>
         /\ (\E k \in 1..Len(steps) : steps[k] \in Downstream) =>
              rec_task.state = "done" /\ diar_task.state = "done"
         /\ (rec_task.state = "failed" \/ diar_task.state = "failed") =>
              /\ \A k \in 1..Len(steps) : steps[k] \notin Downstream
              /\ merged = <<>> /\ consolidated = <<>> /\ result = <<>>
              /\ fs_ops = <<>>
              /\ pc # "pv_returned"
    /\ ~enable_diarization =>
         /\ diar_task = NoTask
         /\ \A k \in 1..Len(steps) : steps[k] # "diarize"
         /\ ~diarization_given

\* recognition gave three segments and was taken, then diarization failed
C26_Witness ==
    /\ pc = "pv_failed"
    /\ enable_diarization
    /\ rec_task.state = "done"
    /\ Len(transcription_segments) = 3
    /\ diar_task.state = "failed"
    /\ error.cause = "DiarizationError"
    /\ steps = <<"extract_audio", "transcribe", "diarize">>

\* also reached: a run without diarization that returns
C26_WithoutDiarization ==
    /\ pc = "pv_returned"
    /\ ~enable_diarization
    /\ steps = <<"extract_audio", "transcribe", "merge_segments",
                 "consolidate_segments", "translate_segments",
                 "translate_batch", "generate_ass">>

\* C27: with diarization enabled process_video has neither returned nor raised
\* while one of the two tasks is running; a task is never cancelled, a failure
\* reaches the caller when both tasks have finished, and when both have
\* failed it is the recognition failure.
C27_WaitsState ==
    /\ pc \in Terminal => rec_task.state # "running" /\ diar_task.state # "running"
    /\ (pc \in Terminal /\ rec_task # NoTask) =>
         /\ rec_task.state \in {"done", "failed"}
         /\ diar_task.state \in {"done", "failed"}
    /\ (pc = "pv_failed" /\ rec_task.state = "failed") =>
         /\ error.cause = rec_task.exception
         /\ error.cause \in TranscribeErrors
    /\ (pc = "pv_failed" /\ rec_task.state = "done" /\ diar_task.state = "failed") =>
         error.cause = diar_task.exception
C27_WaitsStep ==
    /\ (rec_task.state = "running" /\ rec_task' # rec_task) =>
          rec_task'.state \in {"done", "failed"} /\ Last(steps') = "transcribe"
    /\ (diar_task.state = "running" /\ diar_task' # diar_task) =>
          diar_task'.state \in {"done", "failed"} /\ Last(steps') = "diarize"
    /\ (pc = "pv_leave_executor" /\ pc' # pc) =>
          rec_task.state # "running" /\ diar_task.state # "running"
C27_Waits == []C27_WaitsState /\ [][C27_WaitsStep]_vars

\* recognition failed first, diarization failed after it, then the call raised
C27_Witness ==
    /\ pc = "pv_failed"
    /\ steps = <<"extract_audio", "transcribe", "diarize">>
    /\ pending = "TranscriptionError"
    /\ rec_task.state = "failed"
    /\ diar_task.state = "failed"
    /\ error.cause = "TranscriptionError"

\* also reached: the call waits to leave the executor while diarize runs on
C27_Waiting ==
    /\ pc = "pv_leave_executor"
    /\ rec_task.state = "failed"
    /\ diar_task.state = "running"

\* order and equality of ratios
RatioLeq(a, b) == a[1] * b[2] <= b[1] * a[2]
RatioEq(a, b) == a[1] * b[2] = b[1] * a[2]

\* the reports made by translation_progress: those after the report of 0.65
TranslationReports ==
    IF \E k \in 1..Len(reports) : reports[k] = Ratio(65)
    THEN LET at == CHOOSE k \in 1..Len(reports) : reports[k] = Ratio(65)
         IN  SubSeq(reports, at + 1, Min(at + Len(progress), Len(reports)))
    ELSE <<>>

\* C30: the ratios given to the progress callback never decrease and lie in
\* 0 to 1, those of the translation in 0.65 to 0.90; 1.0 is given at most
\* once, after the file is written, and never in a run that fails.
C30_Ratios ==
    /\ ~callback_given => reports = <<>>
    /\ \A k \in 1..Len(reports) :
         /\ reports[k][2] > 0
         /\ RatioLeq(Ratio(0), reports[k]) /\ RatioLeq(reports[k], Ratio(100))
         /\ k > 1 => RatioLeq(reports[k - 1], reports[k])
    /\ callback_given =>
         /\ Len(TranslationReports) = Len(progress)
         /\ \A k \in 1..Len(TranslationReports) :
              /\ RatioLeq(Ratio(65), TranslationReports[k])
              /\ RatioLeq(TranslationReports[k], Ratio(90))
              /\ RatioEq(TranslationReports[k],
                         <<65 * progress[k][2] + 25 * progress[k][1],
                           100 * progress[k][2]>>)
    /\ Cardinality({k \in 1..Len(reports) : RatioEq(reports[k], Ratio(100))}) <= 1
    /\ (\E k \in 1..Len(reports) : RatioEq(reports[k], Ratio(100))) =>
         /\ RatioEq(Last(reports), Ratio(100))
         /\ out_file.exists
         /\ fs_ops = <<"mkdir", "open", "write">>
         /\ pc = "pv_returned"
    /\ pc = "pv_failed" =>
         \A k \in 1..Len(reports) : ~RatioEq(reports[k], Ratio(100))

\* a run with diarization and two batches: thirteen reports, the last 1.0
C30_Witness ==
    /\ pc = "pv_returned"
    /\ callback_given
    /\ enable_diarization
    /\ Len(progress) = 2
    /\ Len(reports) = 13
    /\ TranslationReports = <<<<155, 200>>, <<180, 200>>>>
    /\ Last(reports) = Ratio(100)

====
